---- MODULE Spec2Model ----
(***************************************************************************)
(* Model of apps-script/Code.js: the ZStack billing collector.  One run of *)
(* collectBillingForDate is a sequence of steps, one per external call     *)
(* (login, table check/creation, reference fetches, billing request,       *)
(* delete, bulk insert); the response of each call is chosen when the call *)
(* is made.  collectBillingForMonth drives the same steps once per day.    *)
(*                                                                         *)
(* Encodings.  A JavaScript null/undefined/absent value is Null (<<>>) and *)
(* a present one is Some(v) (<<v>>).  An epoch-millisecond number is the   *)
(* pair [d |-> whole days, ms |-> milliseconds within the day], whose      *)
(* value is d * 86400000 + ms.  A non-integer number is a reduced fraction *)
(* [n |-> numerator, d |-> denominator].  A date string YYYY-MM-DD is the  *)
(* record [y, m, d].                                                       *)
(***************************************************************************)
EXTENDS Integers, Sequences, FiniteSets, TLC

-----------------------------------------------------------------------------
(* JavaScript values *)

Null == <<>>
Some(v) == <<v>>

\* x || dflt for an optional string whose absent form is ""
OrStr(x, dflt) == IF x # "" THEN x ELSE dflt

\* a number is truthy unless it is absent or 0
NumTruthy(x) == x # Null /\ x[1] # 0

MsPerDay == 86400000
MsPerHour == 3600000
BytesPerGB == 1073741824

T(d, ms) == [d |-> d, ms |-> ms]
TZero == T(0, 0)
TimeTruthy(x) == x # Null /\ x[1] # TZero
TLt(a, b) == a.d < b.d \/ (a.d = b.d /\ a.ms < b.ms)
TLe(a, b) == a = b \/ TLt(a, b)
\* a - b in milliseconds
TDiff(a, b) == (a.d - b.d) * MsPerDay + (a.ms - b.ms)

\* parseInt(x || dflt, 10) for an integer time x
OrTime(x, dflt) == IF TimeTruthy(x) THEN x[1] ELSE dflt

Abs(i) == IF i < 0 THEN 0 - i ELSE i

RECURSIVE Gcd(_, _)
Gcd(a, b) == IF b = 0 THEN a ELSE Gcd(b, a % b)

\* n / d as a reduced fraction with a positive denominator
Frac(n, d) ==
  LET g == Gcd(Abs(n), Abs(d))
      s == IF d < 0 THEN 0 - 1 ELSE 1
  IN  [n |-> s * (n \div g), d |-> s * (d \div g)]

\* NaN as a quotient
NaNFrac == [n |-> 0, d |-> 0]

FracMul(a, b) ==
  IF a = NaNFrac \/ b = NaNFrac THEN NaNFrac
  ELSE LET x == Frac(a.n, b.d)
           y == Frac(b.n, a.d)
       IN  [n |-> x.n * y.n, d |-> x.d * y.d]

-----------------------------------------------------------------------------
(* Calendar *)

IsLeap(y) == (y % 4 = 0 /\ y % 100 # 0) \/ y % 400 = 0

\* new Date(y, m, 0).getDate(): the last day of month m; the Date
\* constructor reads a year 0..99 as 1900 + year
DaysInMonth(y, m) ==
  LET yy == IF y >= 0 /\ y <= 99 THEN 1900 + y ELSE y
  IN  IF m = 2 THEN (IF IsLeap(yy) THEN 29 ELSE 28)
      ELSE IF m \in {4, 6, 9, 11} THEN 30 ELSE 31

\* days from 1970-01-01 to the civil date y-m-d
EpochDay(y, m, d) ==
  LET yp  == IF m <= 2 THEN y - 1 ELSE y
      era == yp \div 400
      yoe == yp - era * 400
      mp  == IF m > 2 THEN m - 3 ELSE m + 9
      doy == ((153 * mp + 2) \div 5) + d - 1
      doe == yoe * 365 + (yoe \div 4) - (yoe \div 100) + doy
  IN  era * 146097 + doe - 719468

\* the civil date of the day z days after 1970-01-01 (getUTCFullYear,
\* getUTCMonth and formatDate read a date off an instant this way)
CivilFromDays(z) ==
  LET zz  == z + 719468
      era == zz \div 146097
      doe == zz - era * 146097
      yoe == (doe - (doe \div 1460) + (doe \div 36524) - (doe \div 146096)) \div 365
      doy == doe - (365 * yoe + (yoe \div 4) - (yoe \div 100))
      mp  == (5 * doy + 2) \div 153
      m   == IF mp < 10 THEN mp + 3 ELSE mp - 9
  IN  [y |-> yoe + era * 400 + (IF m <= 2 THEN 1 ELSE 0), m |-> m,
       d |-> doy - ((153 * mp + 2) \div 5) + 1]

\* new Date(<date> + "T<time><offset>").getTime(): the instant whose wall
\* clock, offsetMin minutes east of UTC, shows msOfDay milliseconds after
\* the start of the civil date ds
DateParse(ds, msOfDay, offsetMin) ==
  LET utc == msOfDay - offsetMin * 60000
  IN  T(EpochDay(ds.y, ds.m, ds.d) + (utc \div MsPerDay), utc % MsPerDay)

\* NaN, the getTime() of an Invalid Date; parseInt(NaN, 10) is NaN again
NaNTime == T(0, 0 - 1)

\* the argument with the time appended is one the Date constructor reads
\* as an instant: a YYYY-MM-DD string with a month 01..12 and a day 01..31
\* (a day past the end of a shorter month rolls over into the next), or a
\* string its fallback parser accepts ("14 Feb" is read as 14 February 2001)
ParsesAsDate(ds) ==
  \/ ds.kind = "ymd" /\ ds.m \in 1..12 /\ ds.d \in 1..31
  \/ ds.kind = "loose"

\* new Date(billingDate + "T00:00:00.000+07:00").getTime(); a string that
\* is no date gives an Invalid Date
DateStartMs(ds) == IF ParsesAsDate(ds) THEN DateParse(ds, 0, 7 * 60) ELSE NaNTime
\* a window closed at the next midnight instead of the day's last millisecond
DateEndMsNextMidnight(ds) == DateParse(ds, 24 * MsPerHour, 7 * 60)
\* new Date(billingDate + "T23:59:59.999+07:00").getTime()
DateEndMs(ds) ==
  IF ParsesAsDate(ds)
  THEN DateParse(ds, 23 * MsPerHour + 59 * 60000 + 59 * 1000 + 999, 7 * 60)
  ELSE NaNTime

-----------------------------------------------------------------------------
(* Reference data: price lists and the VM inventory *)

RECURSIVE Concat(_, _)
\* ss[i] \o ss[i+1] \o ...
Concat(ss, i) == IF i > Len(ss) THEN <<>> ELSE ss[i] \o Concat(ss, i + 1)

\* the invMap of findApplicablePrice: inventory key -> resource name
InvMap(invKey) ==
  IF invKey = "sizeInventory" THEN Some("dataVolume")
  ELSE IF invKey = "cpuInventory" THEN Some("cpu")
  ELSE IF invKey = "memoryInventory" THEN Some("memory")
  ELSE Null

\* the candidates of findApplicablePrice, in order
PriceCandidates(resourceType, spendingType, invKey) ==
  (IF resourceType # "" THEN <<resourceType>> ELSE <<>>)
    \o (IF spendingType # "" THEN <<spendingType>> ELSE <<>>)
    \o (IF invKey # Null /\ InvMap(invKey[1]) # Null
          THEN <<InvMap(invKey[1])[1]>> ELSE <<>>)

\* start/end of a price entry as findApplicablePrice reads them
PriceStart(p) == IF TimeTruthy(p.dateInLong) THEN p.dateInLong[1] ELSE TZero
\* an interval that still covers the instant of its end
PriceCoversInclusiveEnd(p, ts) ==
  /\ TLe(PriceStart(p), ts)
  /\ (~TimeTruthy(p.endDateInLong) \/ TLe(ts, p.endDateInLong[1]))
PriceCovers(p, ts) ==
  /\ TLe(PriceStart(p), ts)
  /\ (~TimeTruthy(p.endDateInLong) \/ TLt(ts, p.endDateInLong[1]))

RECURSIVE BestPrice(_, _, _, _)
\* the inner loop of findApplicablePrice over list[i..], best so far in best
BestPrice(list, i, ts, best) ==
  IF i > Len(list) THEN best
  ELSE LET p == list[i]
           take == /\ PriceCovers(p, ts)
                   /\ (best = Null \/ TLt(PriceStart(best[1]), PriceStart(p)))
       IN  BestPrice(list, i + 1, ts, IF take THEN Some(p) ELSE best)

RECURSIVE MatchCandidates(_, _, _, _)
\* the outer loop of findApplicablePrice over candidates[c..]
MatchCandidates(pricesArray, candidates, c, ts) ==
  IF c > Len(candidates) THEN Null
  ELSE LET HasName(p) == p.resourceName = candidates[c]
           list == SelectSeq(pricesArray, HasName)
           best == BestPrice(list, 1, ts, Null)
       IN  IF best # Null THEN best
           ELSE MatchCandidates(pricesArray, candidates, c + 1, ts)

\* a lookup that takes the first entry of the list, whatever its name and interval
FindAnyPrice(pricesArray, resourceType, spendingType, invKey, timestampMs) ==
  IF pricesArray = Null \/ pricesArray[1] = <<>> THEN Null ELSE Some(pricesArray[1][1])

\* findApplicablePrice(pricesArray, resourceType, spendingType, invKey, timestampMs);
\* pricesArray is Null or Some(list); Number(timestampMs) || 0 reads NaN as 0
FindApplicablePrice(pricesArray, resourceType, spendingType, invKey, timestampMs) ==
  IF pricesArray = Null THEN Null
  ELSE MatchCandidates(pricesArray[1],
                       PriceCandidates(resourceType, spendingType, invKey),
                       1, IF timestampMs = NaNTime THEN TZero ELSE timestampMs)

\* v.cpuNum || 0, v.memorySize || 0
OrZero(x) == IF NumTruthy(x) THEN x[1] ELSE 0

\* the volumes of one VM of the inventory listing, as a sequence
VolumesOf(v) == IF v.allVolumes = Null THEN <<>> ELSE v.allVolumes[1]

RECURSIVE BuildVolumesMap(_, _, _)
\* vm.volumesMap after the loop over allVolumes[j..]
BuildVolumesMap(vols, j, acc) ==
  IF j > Len(vols) THEN acc
  ELSE BuildVolumesMap(vols, j + 1,
         [u \in DOMAIN acc \cup {vols[j].uuid} |->
            IF u = vols[j].uuid THEN vols[j] ELSE acc[u]])

RECURSIVE BuildVmMaps(_, _, _)
\* the loop of fetchVmMaps over inv[i..]: acc = [vmMap, volumeToVm]
BuildVmMaps(inv, i, acc) ==
  IF i > Len(inv) THEN acc
  ELSE LET v == inv[i]
           vols == VolumesOf(v)
           vm == [cpuNum |-> OrZero(v.cpuNum),
                  memorySize |-> OrZero(v.memorySize),
                  volumesMap |-> BuildVolumesMap(vols, 1, <<>>)]
           volUuids == {vols[j].uuid : j \in 1..Len(vols)}
           v2v == [u \in DOMAIN acc.volumeToVm \cup volUuids |->
                     IF u \in volUuids THEN v.uuid ELSE acc.volumeToVm[u]]
           vms == [u \in DOMAIN acc.vmMap \cup {v.uuid} |->
                     IF u = v.uuid THEN vm ELSE acc.vmMap[u]]
       IN  BuildVmMaps(inv, i + 1, [vmMap |-> vms, volumeToVm |-> v2v])

EmptyMap == <<>>
NoVmMaps == [vmMap |-> EmptyMap, volumeToVm |-> EmptyMap]

\* m[k], Null when absent
Lookup(m, k) == IF k \in DOMAIN m THEN Some(m[k]) ELSE Null

-----------------------------------------------------------------------------
(* Usage normalizer: the forEach nest of collectBillingForDate.  ctx is    *)
(* [billingDate, accountUuid, dateStartMs, dateEndMs, pricesByTable,       *)
(* vmMap, volumeToVm, collectedAt]                                         *)

\* the keys of the model's payloads that /Inventory$/i matches
InventorySuffixKeys ==
  {"sizeInventory", "cpuInventory", "memoryInventory", "gpuINVENTORY"}
\* the key test without the i flag
IsInventoryFieldCaseSensitive(f) ==
  f.isArray /\ f.key \in {"sizeInventory", "cpuInventory", "memoryInventory"}
\* Array.isArray(detail[k]) && /Inventory$/i.test(k)
IsInventoryField(f) == f.isArray /\ f.key \in InventorySuffixKeys

\* resourceType.toLowerCase() === "vm"
IsVmType(resourceType) == resourceType \in {"vm", "VM", "Vm", "vM"}

\* vmUuidForResource and vmForResource
VmForResource(ctx, resourceType, resourceId) ==
  LET vmUuid == IF IsVmType(resourceType) THEN Some(resourceId)
                ELSE LET o == Lookup(ctx.volumeToVm, resourceId)
                     IN  IF o # Null /\ o[1] # "" THEN o ELSE Null
  IN  IF vmUuid # Null /\ vmUuid[1] # "" THEN Lookup(ctx.vmMap, vmUuid[1]) ELSE Null

\* cpu_core defaulting to one core as the usage computation does
CpuCoreValDefault(vm) == IF vm # Null /\ vm[1].cpuNum # 0 THEN Some(vm[1].cpuNum) ELSE Some(1)

CpuCoreVal(vm) == IF vm # Null /\ vm[1].cpuNum # 0 THEN Some(vm[1].cpuNum) ELSE Null
MemoryVal(vm) == IF vm # Null /\ vm[1].memorySize # 0 THEN Some(vm[1].memorySize) ELSE Null

\* priceEntry.price ? invCost / Number(priceEntry.price) : null
CostOverPrice(invCost, priceEntry) ==
  IF NumTruthy(priceEntry.price) THEN Some(Frac(invCost, priceEntry.price[1])) ELSE Null

\* resUnit || null
UnitOrNull(u) == IF u # "" THEN Some(u) ELSE Null

\* inv.volumeSize || inv.volumeSizeInBytes || the size of the volume in
\* the owning VM's volumesMap || null
SizeBytes(ctx, resourceId, inv) ==
  IF NumTruthy(inv.volumeSize) THEN inv.volumeSize
  ELSE IF NumTruthy(inv.volumeSizeInBytes) THEN inv.volumeSizeInBytes
  ELSE LET vmUuid == Lookup(ctx.volumeToVm, resourceId)
           vm == IF vmUuid # Null /\ vmUuid[1] # ""
                   THEN Lookup(ctx.vmMap, vmUuid[1]) ELSE Null
           vol == IF vm # Null THEN Lookup(vm[1].volumesMap, resourceId) ELSE Null
       IN  IF vol # Null /\ NumTruthy(vol[1].size) THEN vol[1].size ELSE Null

\* [used, unit]: resourceUsed and resourceUnit of one inventory element
ResourceUsage(ctx, resourceId, inv, invStart, invEnd, invCost, priceEntry) ==
  IF priceEntry = Null THEN [used |-> Null, unit |-> Null]
  ELSE LET pe == priceEntry[1]
           hours == IF invStart = NaNTime \/ invEnd = NaNTime THEN NaNFrac
                    ELSE Frac(TDiff(invEnd, invStart), MsPerHour)
           fallback == [used |-> CostOverPrice(invCost, pe),
                        unit |-> UnitOrNull(pe.resourceUnit)]
       IN  IF pe.timeUnit = "HOURS"
           THEN IF pe.resourceName = "cpu"
                THEN LET vm == Lookup(ctx.vmMap, resourceId)
                         cpuCount == IF vm # Null /\ vm[1].cpuNum # 0
                                       THEN vm[1].cpuNum ELSE 1
                     IN  [used |-> Some(FracMul(hours, Frac(cpuCount, 1))),
                          unit |-> Some("vCPU-hour")]
                ELSE IF pe.resourceUnit = "GIGABYTE"
                THEN LET sizeBytes == SizeBytes(ctx, resourceId, inv)
                     IN  IF sizeBytes # Null
                         THEN [used |-> Some(FracMul(hours, Frac(sizeBytes[1], BytesPerGB))),
                               unit |-> Some("GB-hour")]
                         ELSE fallback
                ELSE fallback
           ELSE fallback

\* the row pushed for one element of an inventory array
InventoryRow(ctx, sp, detail, invKey, inv) ==
  LET spendingType == sp.spendingType
      dateStart == OrTime(sp.dateStart, ctx.dateStartMs)
      dateEnd == OrTime(sp.dateEnd, ctx.dateEndMs)
      resourceId == detail.resourceUuid
      resourceType == OrStr(detail.type, spendingType)
      invStart == OrTime(inv.startTime, dateStart)
      invEnd == OrTime(inv.endTime, dateEnd)
      invCost == OrZero(inv.spending)
      priceEntry == FindApplicablePrice(ctx.pricesByTable, resourceType,
                                        spendingType, Some(invKey), invStart)
      vm == VmForResource(ctx, resourceType, resourceId)
      usage == ResourceUsage(ctx, resourceId, inv, invStart, invEnd, invCost, priceEntry)
  IN  [billing_date |-> ctx.billingDate,
       account_id |-> ctx.accountUuid,
       resource_id |-> resourceId,
       resource_name |-> detail.resourceName,
       spending_type |-> spendingType,
       resource_type |-> resourceType,
       cpu_core |-> CpuCoreVal(vm),
       memory |-> MemoryVal(vm),
       inventory_type |-> Some(invKey),
       resource_used |-> usage.used,
       resource_unit |-> usage.unit,
       cost |-> invCost,
       date_start_ms |-> invStart,
       date_end_ms |-> invEnd,
       raw_json |-> Null,
       collected_at |-> ctx.collectedAt]

\* the row pushed for a detail without inventory arrays
DetailRow(ctx, sp, detail) ==
  LET spendingType == sp.spendingType
      resourceId == detail.resourceUuid
      resourceType == OrStr(detail.type, spendingType)
      cost == IF NumTruthy(detail.spending) THEN detail.spending[1]
              ELSE OrZero(sp.spending)
      vm == VmForResource(ctx, resourceType, resourceId)
  IN  [billing_date |-> ctx.billingDate,
       account_id |-> ctx.accountUuid,
       resource_id |-> resourceId,
       resource_name |-> detail.resourceName,
       spending_type |-> spendingType,
       resource_type |-> resourceType,
       cpu_core |-> CpuCoreVal(vm),
       memory |-> MemoryVal(vm),
       inventory_type |-> Null,
       resource_used |-> Null,
       resource_unit |-> Null,
       cost |-> cost,
       date_start_ms |-> OrTime(sp.dateStart, ctx.dateStartMs),
       date_end_ms |-> OrTime(sp.dateEnd, ctx.dateEndMs),
       raw_json |-> Some(detail),
       collected_at |-> ctx.collectedAt]

\* a normalizer that emits a detail's row only when a price list is at hand
DetailRowsPricedOnly(ctx, sp, detail) ==
  IF ctx.pricesByTable = Null THEN <<>> ELSE <<DetailRow(ctx, sp, detail)>>

\* the rows of one detail: one per element of each inventory array, in key
\* order, or the single fallback row when no key is an inventory array
DetailRows(ctx, sp, detail) ==
  LET inventoryKeys == SelectSeq(detail.fields, IsInventoryField)
  IN  IF Len(inventoryKeys) # 0
      THEN Concat([k \in 1..Len(inventoryKeys) |->
                     [e \in 1..Len(inventoryKeys[k].elems) |->
                        InventoryRow(ctx, sp, detail, inventoryKeys[k].key,
                                     inventoryKeys[k].elems[e])]], 1)
      ELSE <<DetailRow(ctx, sp, detail)>>

\* rowsBatch after spending.forEach
NormalizeSpending(ctx, spending) ==
  Concat([s \in 1..Len(spending) |->
            Concat([i \in 1..Len(spending[s].details) |->
                      DetailRows(ctx, spending[s], spending[s].details[i])], 1)], 1)

-----------------------------------------------------------------------------
(* Bounds of the model *)

\* collectBillingForDate is called at most this many times in a row
MaxRuns == 2
\* at most this many days of one collectBillingForMonth call may raise
MaxFailDays == 2

-----------------------------------------------------------------------------
(* Inputs: configurations, dates and the responses of the external services *)

Tok1 == "43dab049f43e429ba927e652d55b0840"
Tok2 == "7c2f0e7a9b1d4c0f8e3a5b6d7f809a1b"
Acc1 == "36c27e8ff05c4780bf6d2fa65700f22e"
\* the strings of the model that /^[0-9a-f]{32}$/i matches
Hex32 == {Tok1, Tok2, Acc1}

\* Script Properties read by collectBillingForDate; "" is an unset property
BaseConfig ==
  [apiUrl |-> "http://zstack:8080", apiKey |-> "", accessKey |-> "",
   accessSecret |-> "", username |-> "", password |-> "",
   projectId |-> "proj", datasetId |-> "ds", tableId |-> "billing",
   accountUuid |-> "", ttl |-> Null]

WithApiKey(c) == [c EXCEPT !.apiKey = "key"]
WithAccessPair(c) == [c EXCEPT !.accessKey = "ak", !.accessSecret = "as"]
WithUser(c) == [c EXCEPT !.username = "admin", !.password = "secret"]
WithAccount(c) == [c EXCEPT !.accountUuid = Acc1]

\* every credential combination, with and without a configured account
CredentialConfigs ==
  LET creds == {BaseConfig,
                WithApiKey(BaseConfig), WithAccessPair(BaseConfig), WithUser(BaseConfig),
                WithApiKey(WithUser(BaseConfig)), WithAccessPair(WithUser(BaseConfig)),
                WithApiKey(WithAccessPair(BaseConfig)),
                [BaseConfig EXCEPT !.accessKey = "ak"],
                [BaseConfig EXCEPT !.username = "admin"]}
  IN  creds \cup {WithAccount(c) : c \in creds}

\* configurations with the base URL or a destination identifier unset
IncompleteConfigs ==
  LET full == {WithAccount(WithApiKey(BaseConfig)), WithAccount(WithUser(BaseConfig))}
  IN  UNION {{[c EXCEPT !.apiUrl = ""], [c EXCEPT !.projectId = ""],
              [c EXCEPT !.datasetId = ""], [c EXCEPT !.tableId = ""]} : c \in full}

\* a configuration with ZSTACK_TOKEN_TTL_SEC set
ShortTtlConfigs == {[WithAccount(WithUser(BaseConfig)) EXCEPT !.ttl = Some(3600)]}

Configs == CredentialConfigs \cup IncompleteConfigs \cup ShortTtlConfigs

\* the default of ZSTACK_TOKEN_TTL_SEC
DefaultTtlSec == 86400
\* the clock (seconds) at the start and the instants it can advance to
Now0 == 1739500000
\* the instants around the expiry of a token issued at Now0
ExpiryInstants(cfg) ==
  LET ttl == IF cfg.ttl = Null THEN DefaultTtlSec ELSE cfg.ttl[1]
  IN  {Now0 + ttl - 1, Now0 + ttl}

\* an argument of collectBillingForDate: kind "ymd" is the string YYYY-MM-DD,
\* "empty" the string "", "nonstring" a value that is not a string
DateOf(y, m, d) == [kind |-> "ymd", y |-> y, m |-> m, d |-> d]
D1 == DateOf(2025, 2, 14)
D2 == DateOf(2025, 2, 15)
\* date strings given to collectBillingForDate by an operator
Dates == {D1, D2}
\* arguments that fail the check of line 25
BadDateArgs == {[kind |-> "empty", y |-> 0, m |-> 0, d |-> 0],
                [kind |-> "nonstring", y |-> 0, m |-> 0, d |-> 0]}
\* non-empty strings that are no YYYY-MM-DD date: "yesterday" (kind "text"),
\* which the Date constructor cannot read, and "14 Feb" (kind "loose"),
\* which it reads as 2001-02-14
MalformedDateArgs == {[kind |-> "text", y |-> 0, m |-> 0, d |-> 1],
                      [kind |-> "loose", y |-> 2001, m |-> 2, d |-> 14]}
\* a string with a quote in it, which ends the DATE literal of the DELETE
\* statement and goes on with SQL of its own:
\* "2025-02-14' OR TRUE OR billing_date = DATE '2025-02-14"
QuotedDateArgs == {[kind |-> "quoted", y |-> 2025, m |-> 2, d |-> 14]}

\* an argument of collectBillingForMonth: wellFormed says whether it
\* matches /^\d{4}-\d{2}$/
MonthOf(y, m) == [wellFormed |-> TRUE, y |-> y, m |-> m]
\* the arguments given to collectBillingForMonth: months of 28, 29, 30 and
\* 31 days of years written with four significant digits (for which
\* y + "-" + mm + "-" + dd is the YYYY-MM-DD string of the day), months out
\* of range, and an argument the pattern rejects
MonthArgs ==
  {MonthOf(2025, 2), MonthOf(2024, 2), MonthOf(2025, 4), MonthOf(2025, 12),
   MonthOf(2025, 13), MonthOf(2025, 0),
   [wellFormed |-> FALSE, y |-> 2025, m |-> 2]}

\* login responses: kind "ok" is a status below 400 with a JSON body,
\* "error" a status >= 400, "throw" a fetch or JSON.parse exception
NoInventory == Null
LoginBody(inv, uuid, session, valueUuid, accountUuid) ==
  [inventory |-> inv, uuid |-> uuid, session |-> session,
   valueUuid |-> valueUuid, accountUuid |-> accountUuid]
EmptyBody == LoginBody(NoInventory, "", "", "", "")
LoginResps ==
  {[kind |-> "ok", body |-> LoginBody(Some([uuid |-> Tok1, accountUuid |-> Acc1,
                                           userUuid |-> Acc1]), "", "", "", "")],
   [kind |-> "ok", body |-> LoginBody(Some([uuid |-> Tok2, accountUuid |-> "",
                                           userUuid |-> ""]), "", "", "", "")],
   [kind |-> "ok", body |-> EmptyBody],
   [kind |-> "ok", body |-> LoginBody(NoInventory, "", "", "", "tenant-a")],
   [kind |-> "error", body |-> EmptyBody],
   [kind |-> "throw", body |-> EmptyBody]}

\* how far the three setProperty calls of loginZstack get before one throws
PersistOutcomes == {0, 1, 2, 3}

\* price-table refs responses
RefsResps ==
  {[kind |-> "ok", inventories |-> <<[accountUuid |-> "other", tableUuid |-> "tblX"],
                                     [accountUuid |-> Acc1, tableUuid |-> "tbl1"]>>],
   [kind |-> "ok", inventories |-> <<>>],
   [kind |-> "error", inventories |-> <<>>],
   [kind |-> "throw", inventories |-> <<>>]}

T0 == T(20000, 0)
Price(name, tbl, price, timeUnit, resUnit, from, until) ==
  [resourceName |-> name, tableUuid |-> tbl, price |-> price, timeUnit |-> timeUnit,
   resourceUnit |-> resUnit, dateInLong |-> from, endDateInLong |-> until]
PriceList1 ==
  <<Price("cpu", "tbl1", Some(2), "HOURS", "", Some(T0), Null),
    Price("dataVolume", "tbl1", Some(3), "HOURS", "GIGABYTE", Some(T0), Null),
    Price("cpu", "tblX", Some(5), "HOURS", "", Some(T0), Null)>>
PricesResps ==
  {[kind |-> "ok", inventories |-> PriceList1],
   [kind |-> "error", inventories |-> <<>>],
   [kind |-> "throw", inventories |-> <<>>]}

VmInventory1 ==
  <<[uuid |-> "vm1", cpuNum |-> Some(2), memorySize |-> Some(BytesPerGB),
     allVolumes |-> Some(<<[uuid |-> "vol1", size |-> Some(BytesPerGB)]>>)]>>
VmResps ==
  {[kind |-> "ok", inventories |-> VmInventory1],
   [kind |-> "error", inventories |-> <<>>],
   [kind |-> "throw", inventories |-> <<>>]}

\* spending payloads
Inv(startTime, endTime, spending, volumeSize) ==
  [startTime |-> startTime, endTime |-> endTime, spending |-> spending,
   volumeSize |-> volumeSize, volumeSizeInBytes |-> Null]
Field(key, isArray, elems) == [key |-> key, isArray |-> isArray, elems |-> elems]
Detail(uuid, name, type, spending, fields) ==
  [resourceUuid |-> uuid, resourceName |-> name, type |-> type,
   spending |-> spending, fields |-> fields]
Entry(spendingType, spending, details) ==
  [spendingType |-> spendingType, dateStart |-> Null, dateEnd |-> Null,
   spending |-> spending, details |-> details]

\* one VM detail with a cpu-inventory and a size-inventory element
SpendingInv ==
  <<Entry("VM", Some(9),
      <<Detail("vm1", "web", "", Some(9),
          <<Field("cpuInventory", TRUE,
              <<Inv(Some(T(20133, 0)), Some(T(20133, 2 * MsPerHour)), Some(4), Null)>>),
            Field("sizeInventory", TRUE,
              <<Inv(Null, Null, Some(5), Some(BytesPerGB))>>)>>)>>)>>
\* one volume detail without inventory arrays
SpendingPlain ==
  <<Entry("dataVolume", Some(7), <<Detail("vol1", "disk", "", Some(7), <<>>)>>)>>

\* billing responses: the HTTP status, whether JSON.parse accepts the body,
\* and the spending array of the parsed body (absent reads as [])
BillingResp(status, parses, spending) ==
  [status |-> status, parses |-> parses, spending |-> spending]
BillingResps ==
  {BillingResp(200, TRUE, <<>>),
   BillingResp(200, TRUE, SpendingPlain),
   BillingResp(200, TRUE, SpendingInv),
   BillingResp(200, FALSE, <<>>),
   BillingResp(400, TRUE, <<>>),
   BillingResp(503, FALSE, <<>>)}

\* BigQuery.Jobs.query for the DELETE: done, answered with errorResult, thrown
DeleteOutcomes == {"ok", "errorResult", "throw"}
\* an error message: its text and the words of the text
Msg(text, words) == [text |-> text, words |-> words]
NoMsg == Msg("", <<>>)
\* messages of errors thrown by BigQuery.Tabledata.insertAll
TableNotFoundMsg ==
  Msg("Not found: Table proj:ds.billing", <<"Not", "found", ":", "Table", "proj:ds.billing">>)
TableNotFoundMsg2 ==
  Msg("Table proj:ds.billing not found", <<"Table", "proj:ds.billing", "not", "found">>)
NoSchemaMsg ==
  Msg("The destination table has no schema",
      <<"The", "destination", "table", "has", "no", "schema">>)
DatasetNotFoundMsg ==
  Msg("Not found: Dataset proj:ds", <<"Not", "found", ":", "Dataset", "proj:ds">>)
AccessDeniedMsg ==
  Msg("Access Denied: Table proj:ds.billing", <<"Access", "Denied", ":", "Table", "proj:ds.billing">>)
ThrownMsgs ==
  {TableNotFoundMsg, TableNotFoundMsg2, NoSchemaMsg, DatasetNotFoundMsg, AccessDeniedMsg}
\* the insertErrors of a response, as JSON.stringify shows them
InvalidRowMsg == Msg("invalid: no such field", <<"invalid", ":", "no", "such", "field">>)
FieldNotFoundMsg == Msg("invalid: field not found", <<"invalid", ":", "field", "not", "found">>)
RowErrorMsgs == {InvalidRowMsg, FieldNotFoundMsg}

\* BigQuery.Tabledata.insertAll: a response without insertErrors, a response
\* with insertErrors, a thrown error
Clean == [kind |-> "clean", msg |-> NoMsg]
RowErrors(msg) == [kind |-> "rowErrors", msg |-> msg]
Thrown(msg) == [kind |-> "throw", msg |-> msg]
InsertOutcomes ==
  {Clean} \cup {RowErrors(m) : m \in RowErrorMsgs} \cup {Thrown(m) : m \in ThrownMsgs}
\* one outcome of each kind: accepted, rejected rows, a thrown error that is
\* retried and one that is not
BasicInsertOutcomes ==
  {Clean, RowErrors(InvalidRowMsg), Thrown(TableNotFoundMsg), Thrown(AccessDeniedMsg)}
CleanOrDenied == {Clean, Thrown(AccessDeniedMsg)}
\* BigQuery.Tables.insert
CreateOutcomes == {"ok", "throw"}

-----------------------------------------------------------------------------
(* State *)

VARIABLES
  config,       \* Script Properties holding the configuration
  durable,      \* Script Properties ZSTACK_CACHED_TOKEN, _TS, _ACCOUNT_UUID
  cache,        \* the global ZSTACK_CACHE of the running execution
  nowSec,       \* the clock, in seconds
  tableExists,  \* whether the destination table exists
  table,        \* the rows of the destination table, in insertion order
  run,          \* the current (or last) call of collectBillingForDate
  prev,         \* history: the call of collectBillingForDate before it
  runs,         \* history: the number of calls of collectBillingForDate made
  month,        \* the current (or last) call of collectBillingForMonth
  peer,         \* loginZstack of an execution that overlaps the current one
  test          \* the current (or last) call of testInsertToBQ

vars == <<config, durable, cache, nowSec, tableExists, table, run, prev, runs, month, peer, test>>

\* no overlapping execution is inside loginZstack
IdlePeer == [pc |-> "idle", token |-> "", ts |-> 0, account |-> ""]

\* var ZSTACK_CACHE = { token: null, accountUuid: null, fetchedAtSec: 0 }
InitCache ==
  [token |-> "", accountUuid |-> "", fetchedAtSec |-> 0,
   priceTable |-> EmptyMap, pricesByTable |-> EmptyMap, vmMaps |-> Null]

\* a call of collectBillingForDate: its position (pc), its locals, the
\* external calls it has made (calls) and how it ended (outcome, error);
\* tableBefore, deleted and inserted are history of the load
BlankRun ==
  [pc |-> "idle", dateStr |-> D1, accountUuid |-> "", sessionToken |-> "",
   headers |-> "none", pricesByTable |-> Null, vmMaps |-> NoVmMaps,
   billing |-> Null, rowsBatch |-> <<>>, attempt |-> 0,
   calls |-> <<>>, outcome |-> "none", error |-> "",
   tableBefore |-> <<>>, deleted |-> "none", inserted |-> FALSE,
   request |-> Null, observed |-> <<>>]

NoMonth == [active |-> FALSE, arg |-> MonthOf(2025, 2), d |-> 0, lastDay |-> 0,
            results |-> <<>>, outcome |-> "none", failures |-> 0, sleeping |-> FALSE]

\* what prev keeps of a call
Summary(r) ==
  [dateStr |-> r.dateStr, outcome |-> r.outcome, billing |-> r.billing,
   rowsBatch |-> r.rowsBatch]

\* a fresh installation with one of the given configurations: no cached
\* token, an empty table or none
InitOf(configs) ==
  /\ config \in configs
  /\ durable = [token |-> "", ts |-> 0, account |-> ""]
  /\ cache = InitCache
  /\ nowSec = Now0
  /\ tableExists \in BOOLEAN
  /\ table = <<>>
  /\ run = BlankRun
  /\ prev = Summary(BlankRun)
  /\ runs = 0
  /\ month = NoMonth
  /\ peer = IdlePeer
  /\ test = BlankRun

Call(op, res) == [op |-> op, res |-> res]
\* the calls of r with the given operation, in order, and their results
CallsOf(r, op) ==
  LET IsOp(c) == c.op = op IN SelectSeq(r.calls, IsOp)
ResultsOf(r, op) == [i \in 1..Len(CallsOf(r, op)) |-> CallsOf(r, op)[i].res]
Called(r, op) == \E i \in 1..Len(r.calls) : r.calls[i].op = op

\* the rows of the table with the given billing date, in order
RowsForDate(tbl, ds) ==
  LET HasDate(row) == row.billing_date = ds IN SelectSeq(tbl, HasDate)
RowsNotForDate(tbl, ds) ==
  LET OtherDate(row) == row.billing_date # ds IN SelectSeq(tbl, OtherDate)

\* the call ends by throwing
Raise(r, err) == [r EXCEPT !.pc = "idle", !.outcome = "raised", !.error = err]
\* return { status: "ok", date: billingDate }
ReturnOk(r) == [r EXCEPT !.pc = "idle", !.outcome = "ok"]

\* the loop without its try/catch: a day that raises ends the month's call
MonthAfterAbort(r) ==
  IF month.active /\ r.pc = "idle"
  THEN IF r.outcome = "ok"
       THEN [month EXCEPT !.results = Append(@, [date |-> r.dateStr, ok |-> TRUE]),
                          !.d = @ + 1, !.sleeping = TRUE]
       ELSE [month EXCEPT !.active = FALSE, !.outcome = "raised", !.failures = @ + 1]
  ELSE month

\* the loop body of collectBillingForMonth after collectBillingForDate has
\* ended: push the day's entry; the sleep of line 407 and the next day follow
MonthAfter(r) ==
  IF month.active /\ r.pc = "idle"
  THEN [month EXCEPT !.results = Append(@, [date |-> r.dateStr, ok |-> r.outcome = "ok"]),
                     !.d = @ + 1, !.sleeping = TRUE,
                     !.failures = IF r.outcome = "ok" THEN @ ELSE @ + 1]
  ELSE month

\* a step ends with the call in state r; within collectBillingForMonth a
\* day may raise only while fewer than MaxFailDays days have
Commit(r) ==
  /\ (month.active /\ r.pc = "idle" /\ r.outcome = "raised")
       => month.failures < MaxFailDays
  /\ run' = r
  /\ month' = MonthAfter(r)

-----------------------------------------------------------------------------
(* Credential resolver: loginZstack and lines 44-65, 92-112 *)

\* the string leaves of a login body in key order, for findUuid
BodyLeaves(body) ==
  (IF body.inventory = Null THEN <<>>
   ELSE <<body.inventory[1].uuid, body.inventory[1].accountUuid,
          body.inventory[1].userUuid>>)
    \o <<body.uuid, body.session, body.valueUuid, body.accountUuid>>

\* findUuid(obj): the first 32-hex-character string of the body, "" if none
FindUuid(body) ==
  LET IsHex(s) == s \in Hex32
      hits == SelectSeq(BodyLeaves(body), IsHex)
  IN  IF Len(hits) > 0 THEN hits[1] ELSE ""

\* token and accountUuid parsed from a login body (lines 960-1000)
ParseLogin(body) ==
  LET inv == body.inventory
      t1 == IF inv # Null THEN inv[1].uuid ELSE ""
      a1 == IF inv = Null THEN ""
            ELSE OrStr(inv[1].accountUuid, inv[1].userUuid)
      t2 == OrStr(OrStr(OrStr(t1, body.uuid), body.session), body.valueUuid)
      a2 == OrStr(a1, body.accountUuid)
  IN  [token |-> OrStr(t2, FindUuid(body)),
       accountUuid |-> OrStr(a2, FindUuid(body))]

TtlOf(cfg) == IF cfg.ttl = Null THEN DefaultTtlSec ELSE cfg.ttl[1]

\* the freshness tests with the expiry instant itself still counted fresh
MemoryHitInclusive(cfg, c, now) ==
  c.token # "" /\ now - c.fetchedAtSec <= (IF cfg.ttl = Null THEN DefaultTtlSec ELSE cfg.ttl[1])

\* the in-memory token is present and fresh (lines 906-910)
MemoryHit(cfg, c, now) == c.token # "" /\ now - c.fetchedAtSec < TtlOf(cfg)
\* the Script Properties token is present and fresh (line 925)
DurableHit(cfg, du, now) == du.token # "" /\ du.ts # 0 /\ now - du.ts < TtlOf(cfg)

\* loginZstack(apiUrl, username, password) with the login response resp
\* and persist outcome k.  seen holds what the three getProperty calls of
\* lines 919-924 returned.  The result: the returned value res (Null for
\* null), ZSTACK_CACHE afterwards, the external calls made, and whether the
\* setProperty calls of lines 1008-1011 are reached.  Without a base URL
\* the fetch is called with a URL that has no host and throws ("invalidUrl")
LoginZstack(cfg, c, seen, now, resp, k) ==
  IF MemoryHit(cfg, c, now)
  THEN [res |-> Some([token |-> c.token, accountUuid |-> c.accountUuid, uuid |-> c.token]),
        cache |-> c, calls |-> <<>>, reads |-> FALSE, writes |-> FALSE]
  ELSE IF DurableHit(cfg, seen, now)
  THEN [res |-> Some([token |-> seen.token, accountUuid |-> seen.account,
                      uuid |-> seen.token]),
        cache |-> [c EXCEPT !.token = seen.token, !.accountUuid = seen.account,
                            !.fetchedAtSec = seen.ts],
        calls |-> <<>>, reads |-> TRUE, writes |-> FALSE]
  ELSE IF cfg.apiUrl = "" \/ resp.kind # "ok"
  THEN [res |-> Null, cache |-> c,
        calls |-> <<Call("login", IF cfg.apiUrl = "" THEN "invalidUrl" ELSE resp.kind)>>,
        reads |-> TRUE, writes |-> FALSE]
  ELSE LET p == ParseLogin(resp.body)
       IN  IF p.token # ""
           THEN [res |-> Some([token |-> p.token, accountUuid |-> p.accountUuid,
                               uuid |-> p.token]),
                 cache |-> [c EXCEPT !.token = p.token, !.accountUuid = p.accountUuid,
                                     !.fetchedAtSec = now],
                 calls |-> <<Call("login", "ok"),
                             Call("persist", IF k >= 3 \/ (k = 2 /\ p.accountUuid = "")
                                               THEN "ok" ELSE "throw")>>,
                 reads |-> TRUE, writes |-> TRUE]
           ELSE [res |-> Some([token |-> "", accountUuid |-> p.accountUuid,
                               uuid |-> p.accountUuid]),
                 cache |-> c, calls |-> <<Call("login", "notoken")>>,
                 reads |-> TRUE, writes |-> FALSE]

\* lines 47-52: sessionToken and accountUuid from the login result
AfterLogin(r, res) ==
  IF res = Null THEN r
  ELSE LET lr == res[1]
           acc1 == IF lr.accountUuid # "" THEN OrStr(r.accountUuid, lr.accountUuid)
                   ELSE r.accountUuid
           acc2 == IF lr.uuid # "" /\ acc1 = "" THEN lr.uuid ELSE acc1
       IN  [r EXCEPT !.sessionToken = OrStr(lr.token, lr.uuid), !.accountUuid = acc2]

HasApiKey(cfg) == cfg.apiKey # ""
HasAccessPair(cfg) == cfg.accessKey # "" /\ cfg.accessSecret # ""
HasUserPass(cfg) == cfg.username # "" /\ cfg.password # ""

\* the condition of lines 55-61
MissingProperties(cfg) ==
  \/ cfg.apiUrl = ""
  \/ ~(HasApiKey(cfg) \/ HasAccessPair(cfg) \/ HasUserPass(cfg))
  \/ cfg.projectId = ""
  \/ cfg.datasetId = ""
  \/ cfg.tableId = ""

\* lines 55-65: throw, or go on to ensureBQTable
ConfigCheck(cfg, r) ==
  IF MissingProperties(cfg) THEN Raise(r, "Missing script properties")
  ELSE [r EXCEPT !.pc = "ensure"]

\* the headers without the Basic fallback of lines 108-110
HeadersNoFallback(cfg, r) ==
  IF cfg.apiKey # "" THEN "Bearer"
  ELSE IF cfg.accessKey # "" /\ cfg.accessSecret # "" THEN "AccessKey"
  ELSE IF cfg.username # "" /\ cfg.password # "" THEN "OAuth"
  ELSE "none"

\* lines 99-112: the authentication header of the requests
Headers(cfg, r) ==
  IF HasApiKey(cfg) THEN "Bearer"
  ELSE IF HasAccessPair(cfg) THEN "AccessKey"
  ELSE IF HasUserPass(cfg) THEN (IF r.sessionToken # "" THEN "OAuth" ELSE "Basic")
  ELSE "none"

\* lines 92-112: throw when no account is known, else build the headers
\* and go on to the reference fetches
AccountCheck(cfg, r) ==
  IF r.accountUuid = "" THEN Raise(r, "Missing ZSTACK_ACCOUNT_UUID")
  ELSE [r EXCEPT !.pc = "prices", !.headers = Headers(cfg, r)]

-----------------------------------------------------------------------------
(* Reference data fetcher *)

\* the first entry of the refs listing for the account: its tableUuid, "" if none
FoundTable(inventories, accountUuid) ==
  LET IsAcc(i) == i.accountUuid = accountUuid
      hits == SelectSeq(inventories, IsAcc)
  IN  IF Len(hits) > 0 THEN hits[1].tableUuid ELSE ""

\* m with key k set to v
Put(m, k, v) == [x \in DOMAIN m \cup {k} |-> IF x = k THEN v ELSE m[x]]

\* fetchPriceTableUuid(base, headers, accountUuid) with response resp:
\* thrown says it threw, found is the table ("" for null)
FetchPriceTableUuid(c, accountUuid, resp) ==
  LET hit == Lookup(c.priceTable, accountUuid)
  IN  IF accountUuid = ""
      THEN [thrown |-> FALSE, found |-> "", cache |-> c, calls |-> <<>>]
      ELSE IF hit # Null /\ hit[1] # ""
      THEN [thrown |-> FALSE, found |-> hit[1], cache |-> c, calls |-> <<>>]
      ELSE IF resp.kind # "ok"
      THEN [thrown |-> TRUE, found |-> "", cache |-> c,
            calls |-> <<Call("priceRefs", resp.kind)>>]
      ELSE LET found == FoundTable(resp.inventories, accountUuid)
           IN  [thrown |-> FALSE, found |-> found,
                cache |-> [c EXCEPT !.priceTable = Put(@, accountUuid, found)],
                calls |-> <<Call("priceRefs", "ok")>>]

\* fetchPricesForTable(base, headers, tableUuid) with response resp
FetchPricesForTable(c, tableUuid, resp) ==
  LET hit == Lookup(c.pricesByTable, tableUuid)
  IN  IF tableUuid = ""
      THEN [thrown |-> FALSE, prices |-> Null, cache |-> c, calls |-> <<>>]
      ELSE IF hit # Null
      THEN [thrown |-> FALSE, prices |-> hit, cache |-> c, calls |-> <<>>]
      ELSE IF resp.kind # "ok"
      THEN [thrown |-> TRUE, prices |-> Null, cache |-> c,
            calls |-> <<Call("prices", resp.kind)>>]
      ELSE LET InTable(p) == p.tableUuid = tableUuid
               filtered == SelectSeq(resp.inventories, InTable)
           IN  [thrown |-> FALSE, prices |-> Some(filtered),
                cache |-> [c EXCEPT !.pricesByTable = Put(@, tableUuid, filtered)],
                calls |-> <<Call("prices", "ok")>>]

\* lines 115-121: pricesByTable (Null when a fetch threw or no table was found)
FetchPrices(c, accountUuid, refsResp, pricesResp) ==
  LET t == FetchPriceTableUuid(c, accountUuid, refsResp)
  IN  IF t.thrown \/ t.found = ""
      THEN [prices |-> Null, cache |-> t.cache, calls |-> t.calls]
      ELSE LET p == FetchPricesForTable(t.cache, t.found, pricesResp)
           IN  [prices |-> p.prices, cache |-> p.cache, calls |-> t.calls \o p.calls]

\* fetchVmMaps(base, headers) with response resp, inside the try of lines 122-128
FetchVmMaps(c, resp) ==
  IF c.vmMaps # Null
  THEN [maps |-> c.vmMaps[1], cache |-> c, calls |-> <<>>]
  ELSE IF resp.kind # "ok"
  THEN [maps |-> NoVmMaps, cache |-> c, calls |-> <<Call("vmInstances", resp.kind)>>]
  ELSE LET maps == BuildVmMaps(resp.inventories, 1, NoVmMaps)
       IN  [maps |-> maps, cache |-> [c EXCEPT !.vmMaps = Some(maps)],
            calls |-> <<Call("vmInstances", "ok")>>]

-----------------------------------------------------------------------------
(* Steps of collectBillingForDate.  Each step takes the set of responses   *)
(* the external service may give to its call.                              *)

\* lines 24-53: the call begins; it throws on a bad argument, logs in when a
\* username and a password are configured, else checks the configuration
Begin(ds) ==
  LET r0 == [BlankRun EXCEPT !.dateStr = ds]
      r1 == [r0 EXCEPT !.accountUuid = config.accountUuid,
                       !.tableBefore = table]
  IN  IF ds.kind \in {"empty", "nonstring"}
      THEN Raise(r0, "dateStr must be provided as YYYY-MM-DD")
      ELSE IF HasUserPass(config) THEN [r1 EXCEPT !.pc = "login"]
      ELSE ConfigCheck(config, r1)

\* an operator or the trigger calls collectBillingForDate(ds)
CollectBillingForDate(ds) ==
  /\ run.pc = "idle"
  /\ ~month.active
  /\ runs < MaxRuns
  /\ runs' = runs + 1
  /\ prev' = Summary(run)
  /\ Commit(Begin(ds))
  /\ UNCHANGED <<test, peer, config, durable, cache, nowSec, tableExists, table>>

\* the setProperty calls the overlapping execution has still to make
RemainingWrites(p) ==
  IF p.pc = "fetched" THEN 3 ELSE IF p.pc = "token" THEN 2 ELSE IF p.pc = "ts" THEN 1 ELSE 0

\* lines 1008-1011 in the overlapping execution: its next setProperty call,
\* on s = [durable, peer]
PeerStep(s) ==
  LET p == s.peer
  IN  [durable |-> IF p.pc = "fetched" THEN [s.durable EXCEPT !.token = p.token]
                   ELSE IF p.pc = "token" THEN [s.durable EXCEPT !.ts = p.ts]
                   ELSE IF p.pc = "ts" /\ p.account # ""
                     THEN [s.durable EXCEPT !.account = p.account]
                   ELSE s.durable,
       peer |-> [p EXCEPT !.pc = IF p.pc = "fetched" THEN "token"
                                 ELSE IF p.pc = "token" THEN "ts"
                                 ELSE IF p.pc = "ts" THEN "done" ELSE @]]

RECURSIVE PeerWrites(_, _)
\* its next n setProperty calls
PeerWrites(s, n) == IF n = 0 THEN s ELSE PeerWrites(PeerStep(s), n - 1)

\* how many setProperty calls of the overlapping execution fall between the
\* Script Property accesses of one call of loginZstack, which holds no lock:
\* g[1] between getProperty(ZSTACK_CACHED_TOKEN) and
\* getProperty(ZSTACK_CACHED_TOKEN_TS), g[2] between that and
\* getProperty(ZSTACK_CACHED_ACCOUNT_UUID), g[3], g[4] and g[5] before the
\* first, the second and the third setProperty call.  Those that fall
\* before the first access or after the last are steps of their own
PeerGaps(p) ==
  {g \in [1..5 -> 0..3] : g[1] + g[2] + g[3] + g[4] + g[5] <= RemainingWrites(p)}

\* the three getProperty calls of lines 919-924 on s = [durable, peer], with
\* the setProperty calls of the overlapping execution in between: the
\* values read (seen) and the Script Properties after the last read
ReadProperties(s, g) ==
  LET s1 == PeerWrites(s, g[1])
      s2 == PeerWrites(s1, g[2])
  IN  [seen |-> [token |-> s.durable.token, ts |-> s1.durable.ts,
                 account |-> s2.durable.account],
       durable |-> s2.durable, peer |-> s2.peer]

\* the setProperty calls of lines 1008-1011, of which the first k succeed,
\* with those of the overlapping execution in between
InterleavedPersist(du, pr, token, accountUuid, now, k, g) ==
  LET s0 == PeerWrites([durable |-> du, peer |-> pr], g[3])
      s1 == IF k >= 1 THEN [s0 EXCEPT !.durable.token = token] ELSE s0
      s2 == PeerWrites(s1, g[4])
      s3 == IF k >= 2 THEN [s2 EXCEPT !.durable.ts = now] ELSE s2
      s4 == PeerWrites(s3, g[5])
  IN  IF k >= 3 /\ accountUuid # "" THEN [s4 EXCEPT !.durable.account = accountUuid]
      ELSE s4

\* one call of loginZstack on ZSTACK_CACHE c and s = [durable, peer], with
\* the gaps g: what LoginZstack gives, and the Script Properties and the
\* overlapping execution afterwards.  A call that returns the in-memory
\* token reads no cached property; only a call that got a token writes
LoginCall(cfg, c, s, now, resp, k, g) ==
  LET rd == ReadProperties(s, g)
      l == LoginZstack(cfg, c, rd.seen, now, resp, k)
      after == IF ~l.reads THEN s
               ELSE IF ~l.writes THEN [durable |-> rd.durable, peer |-> rd.peer]
               ELSE InterleavedPersist(rd.durable, rd.peer, l.cache.token,
                                       l.cache.accountUuid, now, k, g)
  IN  [res |-> l.res, cache |-> l.cache, calls |-> l.calls,
       durable |-> after.durable, peer |-> after.peer]

\* line 46: loginZstack, then lines 47-65
Login(resps, persists) ==
  /\ run.pc = "login"
  /\ \E resp \in resps, k \in persists, g \in PeerGaps(peer) :
       LET l == LoginCall(config, cache, [durable |-> durable, peer |-> peer],
                          nowSec, resp, k, g)
           r == AfterLogin([run EXCEPT !.calls = @ \o l.calls], l.res)
       IN  /\ cache' = l.cache
           /\ durable' = l.durable
           /\ peer' = l.peer
           /\ Commit(ConfigCheck(config, r))
  /\ UNCHANGED <<test, config, nowSec, tableExists, table, prev, runs>>

\* testZstackAuth (lines 1056-1097) with a base URL, a username and a
\* password configured: loginZstack outside any call of
\* collectBillingForDate
TestZstackAuth(resps, persists) ==
  /\ run.pc = "idle"
  /\ ~month.active
  /\ config.apiUrl # ""
  /\ config.username # "" /\ config.password # ""
  /\ \E resp \in resps, k \in persists, g \in PeerGaps(peer) :
       LET l == LoginCall(config, cache, [durable |-> durable, peer |-> peer],
                          nowSec, resp, k, g)
       IN  /\ cache' = l.cache
           /\ durable' = l.durable
           /\ peer' = l.peer
  /\ UNCHANGED <<test, config, nowSec, tableExists, table, run, prev, runs, month>>

\* line 70: ensureBQTable up to its catch (lines 834-837), then lines
\* 92-112 when the table is found.  BigQuery.Tables.get throws when the
\* table does not exist, and may fail (getFails) when it does; whatever it
\* throws, the call goes on to create the table
EnsureBQTable(getFails) ==
  /\ run.pc = "ensure"
  /\ \E getFail \in getFails :
       IF tableExists /\ ~getFail
       THEN Commit(AccountCheck(config,
                     [run EXCEPT !.calls = @ \o <<Call("tablesGet", "found")>>]))
       ELSE Commit([run EXCEPT !.pc = "create",
                               !.calls = @ \o <<Call("tablesGet", "throw")>>])
  /\ UNCHANGED <<test, peer, config, durable, cache, nowSec, tableExists, table, prev, runs>>

\* lines 876-882 of ensureBQTable, then lines 92-112: BigQuery.Tables.insert
\* throws when the table exists by now, and the error is rethrown
TablesInsert(creates) ==
  /\ run.pc = "create"
  /\ \E create \in creates :
       LET created == ~tableExists /\ create = "ok"
           r == [run EXCEPT !.calls = @ \o
                   <<Call("tablesInsert", IF created THEN "ok" ELSE "throw")>>]
       IN  /\ tableExists' = (tableExists \/ created)
           /\ Commit(IF created THEN AccountCheck(config, r)
                     ELSE Raise(r, "Failed to create table"))
  /\ UNCHANGED <<test, peer, config, durable, cache, nowSec, table, prev, runs>>

\* lines 115-121: the price table and the price list, best-effort
Prices(refsResps, pricesResps) ==
  /\ run.pc = "prices"
  /\ \E refsResp \in refsResps, pricesResp \in pricesResps :
       LET f == FetchPrices(cache, run.accountUuid, refsResp, pricesResp)
       IN  /\ cache' = f.cache
           /\ Commit([run EXCEPT !.pc = "vms", !.pricesByTable = f.prices,
                                 !.calls = @ \o f.calls])
  /\ UNCHANGED <<test, peer, config, durable, nowSec, tableExists, table, prev, runs>>

\* lines 122-128: the VM inventory, best-effort
VmInstances(resps) ==
  /\ run.pc = "vms"
  /\ \E resp \in resps :
       LET f == FetchVmMaps(cache, resp)
       IN  /\ cache' = f.cache
           /\ Commit([run EXCEPT !.pc = "billing", !.vmMaps = f.maps,
                                 !.calls = @ \o f.calls])
  /\ UNCHANGED <<test, peer, config, durable, nowSec, tableExists, table, prev, runs>>

\* the context of the normalizer for the call r
Ctx(r) ==
  [billingDate |-> r.dateStr, accountUuid |-> r.accountUuid,
   dateStartMs |-> DateStartMs(r.dateStr), dateEndMs |-> DateEndMs(r.dateStr),
   pricesByTable |-> r.pricesByTable,
   vmMap |-> r.vmMaps.vmMap, volumeToVm |-> r.vmMaps.volumeToVm,
   collectedAt |-> nowSec]

\* lines 131-139: calculateAccountSpending of the request body
RequestBody(ctx) == [dateStart |-> ctx.dateStartMs, dateEnd |-> ctx.dateEndMs]

\* the status check with the boundary status let through
IsErrorStatusAbove(resp) == resp.status > 400

\* status >= 400 of the billing response (line 161)
IsErrorStatus(resp) == resp.status >= 400

\* lines 363-365: the load is skipped for an empty batch
HasRows(rows) == Len(rows) # 0

\* lines 159-367 up to the load: the billing request, its status check and
\* the normalizer; a call without rows returns at once
AfterBilling(r, resp) ==
  LET r1 == [r EXCEPT !.calls = @ \o <<Call("billing", "response")>>,
                      !.request = Some(RequestBody(Ctx(r))),
                      !.billing = Some(resp)]
  IN  IF IsErrorStatus(resp) THEN Raise(r1, "ZStack API error")
      ELSE IF ~resp.parses THEN Raise(r1, "SyntaxError")
      ELSE LET rows == NormalizeSpending(Ctx(r), resp.spending)
           IN  IF HasRows(rows)
               THEN [r1 EXCEPT !.pc = "delete", !.rowsBatch = rows]
               ELSE ReturnOk(r1)

Billing(resps) ==
  /\ run.pc = "billing"
  /\ \E resp \in resps : Commit(AfterBilling(run, resp))
  /\ UNCHANGED <<test, peer, config, durable, cache, nowSec, tableExists, table, prev, runs>>

\* a DELETE whose WHERE clause matches no row
AfterDeleteNothing(tbl, ds, o) == tbl

\* a DELETE that removes the rows even when the job reports a failure
AfterDeleteAlways(tbl, ds, o) == RowsNotForDate(tbl, ds)

\* lines 467-476: the WHERE clause is billing_date = DATE '<billingDate>',
\* the argument pasted between the quotes as it is
MatchedByWhere(row, ds) == IF ds.kind = "quoted" THEN TRUE ELSE row.billing_date = ds

\* the table after the DELETE job with outcome o
AfterDelete(tbl, ds, o) ==
  LET Kept(row) == ~MatchedByWhere(row, ds)
  IN  IF o = "ok" THEN SelectSeq(tbl, Kept) ELSE tbl

\* a replaceRowsForDate without the try/catch around deleteRowsForDate: a
\* failed delete ends the call
DeleteRowsForDatePropagating(outcomes) ==
  /\ run.pc = "delete"
  /\ \E o \in outcomes :
       /\ table' = AfterDelete(table, run.dateStr, o)
       /\ Commit(IF o = "ok"
                 THEN [run EXCEPT !.pc = "insert", !.attempt = 0, !.deleted = "ok",
                                  !.calls = @ \o <<Call("delete", o)>>]
                 ELSE Raise([run EXCEPT !.deleted = "failed",
                                        !.calls = @ \o <<Call("delete", o)>>],
                            "BigQuery delete error"))
  /\ UNCHANGED <<test, peer, config, durable, cache, nowSec, tableExists, prev, runs>>

\* lines 452-457 of replaceRowsForDate: deleteRowsForDate, whose failure is
\* logged and ignored
DeleteRowsForDate(outcomes) ==
  /\ run.pc = "delete"
  /\ \E o \in outcomes :
       /\ table' = AfterDelete(table, run.dateStr, o)
       /\ Commit([run EXCEPT !.pc = "insert", !.attempt = 0,
                             !.deleted = IF o = "ok" THEN "ok" ELSE "failed",
                             !.calls = @ \o <<Call("delete", o)>>])
  /\ UNCHANGED <<test, peer, config, durable, cache, nowSec, tableExists, prev, runs>>

\* the word w in lower case (the i flag of the patterns)
Lower(w) ==
  CASE w = "Not" -> "not" [] w = "Table" -> "table" [] w = "The" -> "the"
    [] w = "No" -> "no" [] OTHER -> w

\* the phrase ph stands in the words ws at position j
HasPhraseAt(ws, ph, j) ==
  /\ j + Len(ph) - 1 <= Len(ws)
  /\ \A k \in 1..Len(ph) : Lower(ws[j + k - 1]) = ph[k]
HasPhrase(ws, ph) == \E j \in 1..Len(ws) : HasPhraseAt(ws, ph, j)
\* /Table .* <ph>/i: "table", a blank, anything, a blank, the phrase
TableThenPhrase(ws, ph) ==
  \E i \in 1..Len(ws) :
    Lower(ws[i]) = "table" /\ \E j \in (i + 2)..Len(ws) : HasPhraseAt(ws, ph, j)

\* the five patterns of lines 554-558 on the words of a message
IsRetryable(ws) ==
  \/ HasPhrase(ws, <<"no", "schema">>)
  \/ TableThenPhrase(ws, <<"has", "no", "schema">>)
  \/ HasPhrase(ws, <<"destination", "table", "has", "no", "schema">>)
  \/ TableThenPhrase(ws, <<"not", "found">>)
  \/ HasPhrase(ws, <<"not", "found">>)

\* the message of the error made of the insertErrors (lines 530-533)
RowErrorsMsg(m) ==
  Msg("BigQuery insertAll returned errors: " \o m.text,
      <<"BigQuery", "insertAll", "returned", "errors", ":">> \o m.words)

\* four passes of the loop
MaxRetriesOneMore == 3 + 1

\* maxRetries of insertRowsToBQ
MaxRetries == 3

\* the schema is fetched for the log (lines 536, 561)
SchemaGet(r) == [r EXCEPT !.calls = @ \o <<Call("tablesGetSchema", "ok")>>]

\* a catch that rethrows, when the attempts are used up, the error of the
\* first attempt
AfterThrowFirst(r, e) ==
  IF IsRetryable(e.words)
  THEN IF r.attempt >= MaxRetries THEN Raise(SchemaGet(r), r.observed[1]) ELSE SchemaGet(r)
  ELSE Raise(r, e.text)

\* the catch of lines 549-579 for the error e thrown in attempt r.attempt:
\* log the schema and go round again on a retryable message while attempts
\* are left, rethrow otherwise
AfterThrow(r, e) ==
  IF IsRetryable(e.words)
  THEN IF r.attempt >= MaxRetries THEN Raise(SchemaGet(r), e.text) ELSE SchemaGet(r)
  ELSE Raise(r, e.text)

\* one pass of the loop of insertRowsToBQ with outcome o of insertAll; the
\* error thrown for insertErrors on the last attempt (line 543) is caught by
\* the catch of line 549 like any other.  The call is recorded with the
\* kind of its response, or with the text of the error it threw; observed
\* keeps the message of the error each attempt met ("" for none)
AfterInsert(r, o) ==
  LET res == IF o.kind = "throw" THEN o.msg.text ELSE o.kind
      err == IF o.kind = "clean" THEN ""
             ELSE IF o.kind = "rowErrors" THEN RowErrorsMsg(o.msg).text ELSE o.msg.text
      r1 == [r EXCEPT !.attempt = @ + 1, !.calls = @ \o <<Call("insertAll", res)>>,
                      !.observed = @ \o <<err>>]
  IN  IF o.kind = "clean" THEN ReturnOk([r1 EXCEPT !.inserted = TRUE])
      ELSE IF o.kind = "rowErrors"
      THEN IF r1.attempt >= MaxRetries
           THEN AfterThrow(SchemaGet(r1), RowErrorsMsg(o.msg))
           ELSE SchemaGet(r1)
      ELSE AfterThrow(r1, o.msg)

\* the table after insertAll with outcome o: the rows are appended when the
\* request is accepted, none is when it is rejected or throws
AfterInsertAll(tbl, rows, o) == IF o.kind = "clean" THEN tbl \o rows ELSE tbl

\* Utilities.sleep(3000) of lines 544 and 574, in seconds
RetrySleepSec == 3

\* line 460 of replaceRowsForDate: insertRowsToBQ, one attempt per step;
\* an attempt that is followed by another ends with the sleep
InsertRowsToBQ(outcomes) ==
  /\ run.pc = "insert"
  /\ \E o \in outcomes :
       /\ table' = AfterInsertAll(table, run.rowsBatch, o)
       /\ nowSec' = IF AfterInsert(run, o).pc = "insert"
                    THEN nowSec + RetrySleepSec ELSE nowSec
       /\ Commit(AfterInsert(run, o))
  /\ UNCHANGED <<test, peer, config, durable, cache, tableExists, prev, runs>>

\* the sample row of testInsertToBQ (lines 796-816) made at the instant now:
\* the billing date is the UTC date, the cost 0.01
SampleRow(now) ==
  LET utc == CivilFromDays(now \div 86400)
      ms == T(now \div 86400, (now % 86400) * 1000)
  IN  [billing_date |-> DateOf(utc.y, utc.m, utc.d),
       account_id |-> "test-account",
       resource_id |-> "test-resource",
       resource_name |-> "test-resource-name",
       spending_type |-> "VM",
       resource_type |-> "VM",
       cpu_core |-> Some(1),
       memory |-> Some(BytesPerGB),
       inventory_type |-> Some("cpuInventory"),
       resource_used |-> Some([n |-> 1, d |-> 100]),
       resource_unit |-> Some("vCPU-hour"),
       cost |-> [n |-> 1, d |-> 100],
       date_start_ms |-> ms,
       date_end_ms |-> ms,
       raw_json |-> Some([test |-> TRUE]),
       collected_at |-> now]

\* the sample rows the table may hold
MaxTestRows == 1

\* testInsertToBQ (lines 774-782) with the destination configured: the call
\* begins.  It runs in an execution of its own, next to any call of
\* collectBillingForDate
TestInsertToBQ ==
  /\ test.pc = "idle"
  /\ config.projectId # "" /\ config.datasetId # "" /\ config.tableId # ""
  /\ LET IsSample(row) == row.account_id = "test-account"
     IN  Len(SelectSeq(table, IsSample)) < MaxTestRows
  /\ test' = [BlankRun EXCEPT !.pc = "ensure"]
  /\ UNCHANGED <<config, durable, cache, nowSec, tableExists, table, run, prev, runs,
                 month, peer>>

\* line 785 of testInsertToBQ: ensureBQTable up to its catch (lines 834-837)
TestEnsureBQTable(getFails) ==
  /\ test.pc = "ensure"
  /\ \E getFail \in getFails :
       test' = IF tableExists /\ ~getFail
               THEN [test EXCEPT !.pc = "schema",
                                 !.calls = @ \o <<Call("tablesGet", "found")>>]
               ELSE [test EXCEPT !.pc = "create",
                                 !.calls = @ \o <<Call("tablesGet", "throw")>>]
  /\ UNCHANGED <<config, durable, cache, nowSec, tableExists, table, run, prev, runs,
                 month, peer>>

\* lines 876-882 of ensureBQTable in testInsertToBQ: a failed creation ends
\* the call
TestTablesInsert(creates) ==
  /\ test.pc = "create"
  /\ \E create \in creates :
       LET created == ~tableExists /\ create = "ok"
           r == [test EXCEPT !.calls = @ \o
                   <<Call("tablesInsert", IF created THEN "ok" ELSE "throw")>>]
       IN  /\ tableExists' = (tableExists \/ created)
           /\ test' = IF created THEN [r EXCEPT !.pc = "schema"]
                      ELSE Raise(r, "Failed to create table")
  /\ UNCHANGED <<config, durable, cache, nowSec, table, run, prev, runs, month, peer>>

\* lines 788-818 of testInsertToBQ: getBQTableSchema for the log, then the
\* sample row is made
TestGetSchema ==
  /\ test.pc = "schema"
  /\ test' = [SchemaGet(test) EXCEPT !.pc = "insert", !.rowsBatch = <<SampleRow(nowSec)>>]
  /\ UNCHANGED <<config, durable, cache, nowSec, tableExists, table, run, prev, runs,
                 month, peer>>

\* line 821 of testInsertToBQ: insertRowsToBQ, one attempt per step; an
\* attempt that is followed by another goes on to the sleep
TestInsertRowsToBQ(outcomes) ==
  /\ test.pc = "insert"
  /\ \E o \in outcomes :
       LET r == AfterInsert(test, o)
       IN  /\ table' = AfterInsertAll(table, test.rowsBatch, o)
           /\ test' = IF r.pc = "insert" THEN [r EXCEPT !.pc = "sleep"] ELSE r
  /\ UNCHANGED <<config, durable, cache, nowSec, tableExists, run, prev, runs, month, peer>>

\* Utilities.sleep(3000) of lines 544 and 574 in testInsertToBQ
TestSleep ==
  /\ test.pc = "sleep"
  /\ nowSec' = nowSec + RetrySleepSec
  /\ test' = [test EXCEPT !.pc = "insert"]
  /\ UNCHANGED <<config, durable, cache, tableExists, table, run, prev, runs, month, peer>>

\* time passes between calls
Tick(instants) ==
  /\ run.pc = "idle"
  /\ \E t \in instants : t > nowSec /\ nowSec' = t
  /\ UNCHANGED <<test, peer, config, durable, cache, tableExists, table, run, prev, runs, month>>

\* the script execution ends: the next one starts with a fresh ZSTACK_CACHE
EndExecution ==
  /\ run.pc = "idle"
  /\ ~month.active
  /\ cache # InitCache
  /\ cache' = InitCache
  /\ UNCHANGED <<test, peer, config, durable, nowSec, tableExists, table, run, prev, runs, month>>

-----------------------------------------------------------------------------
(* Spec: the load.  An API key and an account are configured; the          *)
(* reference data are available; every outcome of the table check, the     *)
(* billing request, the delete and the insert is possible.                 *)

LoadConfigs == {WithAccount(WithApiKey(BaseConfig))}
OkRefs == {r \in RefsResps : r.kind = "ok" /\ Len(r.inventories) > 0}
OkPrices == {r \in PricesResps : r.kind = "ok"}
OkVms == {r \in VmResps : r.kind = "ok"}

Init == InitOf(LoadConfigs)

Next ==
  \/ \E ds \in Dates \cup BadDateArgs : CollectBillingForDate(ds)
  \/ EnsureBQTable({FALSE})
  \/ TablesInsert(CreateOutcomes)
  \/ Prices(OkRefs, OkPrices)
  \/ VmInstances(OkVms)
  \/ Billing(BillingResps)
  \/ DeleteRowsForDate(DeleteOutcomes)
  \/ InsertRowsToBQ(BasicInsertOutcomes)
  \/ Tick({Now0 + 1})

Spec == Init /\ [][Next]_vars

-----------------------------------------------------------------------------
(* Properties of the load *)

\* the rows of the current call's date: before the call, and now
RowsBefore == RowsForDate(run.tableBefore, run.dateStr)
RowsNow == RowsForDate(table, run.dateStr)
\* the current call has ended
Ended == run.pc = "idle" /\ run.outcome # "none"
\* the current call and the one before it both returned ok, for the same
\* date and with the same billing response
TwiceSame ==
  /\ Ended /\ run.outcome = "ok" /\ prev.outcome = "ok"
  /\ prev.dateStr = run.dateStr
  /\ prev.billing = run.billing

\* C1 as stated: after collectBillingForDate has run twice in a row for the
\* same date with the same response, the rows of that date are exactly the
\* records derived from the response, each once.
C1_TwiceLeavesOneSet == TwiceSame => RowsNow = run.rowsBatch

\* C1, amended: after two such runs, when the second run's delete succeeded
\* the rows of the date are exactly the derived records, each once; when
\* its delete failed they are the rows that were there before the second
\* run followed by the derived records.
C1_TwiceByDeleteOutcome ==
  TwiceSame =>
    /\ run.deleted = "ok" => RowsNow = run.rowsBatch
    /\ run.deleted = "failed" => RowsNow = RowsBefore \o run.rowsBatch

\* two ok runs with the same non-empty response, the second delete done: one
\* set of rows, where the first run had left its own
C1_Witness ==
  /\ TwiceSame /\ run.rowsBatch # <<>> /\ run.deleted = "ok"
  /\ RowsBefore # <<>> /\ RowsNow = run.rowsBatch

\* C2 as stated, for the runs whose delete did not fail: after a run that
\* returned ok, the rows of its date are exactly the records derived from
\* its response, an empty spending list included.
C2_RunSupersedes ==
  (Ended /\ run.outcome = "ok" /\ run.deleted # "failed") => RowsNow = run.rowsBatch

\* C3 as stated: once replaceRowsForDate has returned or thrown, the rows of
\* the date are entirely those from before the call or entirely the batch.
C3_ReplaceAtomic ==
  (Ended /\ run.deleted # "none") => RowsNow \in {run.rowsBatch, RowsBefore}

\* C3, amended: once replaceRowsForDate has returned or thrown, the rows of
\* the date are those from before the call unless the delete succeeded,
\* followed by the batch if the insert succeeded.
C3_ReplaceDeleteThenInsert ==
  (Ended /\ run.deleted # "none") =>
    /\ RowsNow = (IF run.deleted = "ok" THEN <<>> ELSE RowsBefore)
                   \o (IF run.inserted THEN run.rowsBatch ELSE <<>>)
    /\ run.inserted = (run.outcome = "ok")

\* the delete succeeded and the insert threw: the date's rows are gone
C3_Witness ==
  /\ Ended /\ run.deleted = "ok" /\ ~run.inserted /\ run.outcome = "raised"
  /\ RowsBefore # <<>> /\ RowsNow = <<>>

\* the positions of the calls of the current run to the operation op
CallPositions(op) == {i \in 1..Len(run.calls) : run.calls[i].op = op}

\* C24: a call issues at most one DELETE, and every insertAll comes after
\* it; right after the DELETE, whatever its outcome, the call has not ended
\* and is about to attempt the insert; a call that raised after a DELETE
\* raised an error of the insert, never one of the DELETE.
C24_DeleteOnceThenInsert ==
  /\ Cardinality(CallPositions("delete")) <= 1
  /\ \A i \in CallPositions("insertAll") : \E j \in CallPositions("delete") : j < i
  /\ (CallPositions("delete") # {} /\ CallPositions("insertAll") = {}) =>
       (run.pc = "insert" /\ run.outcome = "none")
  /\ (CallPositions("delete") # {} /\ run.outcome = "raised") =>
       (CallPositions("insertAll") # {} /\ run.error # "BigQuery delete error")

\* the DELETE threw, the insert was rejected once and then accepted: one
\* DELETE, two insert attempts
C24_Witness ==
  /\ ResultsOf(run, "delete") = <<"throw">>
  /\ ResultsOf(run, "insertAll") = <<"rowErrors", "clean">>
  /\ run.outcome = "ok"

\* C9: when the billing response has a status >= 400 the call raises after
\* that single billing request and the table is as it was before the call;
\* a delete or an insert is only ever issued after a billing response with a
\* status below 400.
C9_ErrorStatusRaises ==
  /\ (run.billing # Null /\ run.billing[1].status >= 400) =>
       /\ Ended /\ run.outcome = "raised" /\ run.error = "ZStack API error"
       /\ Len(CallsOf(run, "billing")) = 1
       /\ ~Called(run, "delete") /\ ~Called(run, "insertAll")
       /\ table = run.tableBefore
  /\ (Called(run, "delete") \/ Called(run, "insertAll")) =>
       /\ run.billing # Null /\ run.billing[1].status < 400
       /\ \E i \in 1..Len(run.calls) :
            /\ run.calls[i].op = "billing"
            /\ \A j \in 1..i : run.calls[j].op \notin {"delete", "insertAll"}

\* a billing response with an error status on a date that has rows
C9_Witness ==
  /\ run.billing # Null /\ run.billing[1].status >= 400
  /\ run.outcome = "raised" /\ RowsBefore # <<>>

-----------------------------------------------------------------------------
(* SpecAuth: the credential resolver.  A username and a password are       *)
(* configured; executions end and time passes between calls, up to and     *)
(* beyond the expiry of the token; every login response and every outcome  *)
(* of the durable write is possible.  The billing request is refused, so   *)
(* the table stays empty.                                                  *)

SessionConfigs == {WithUser(BaseConfig), WithAccount(WithUser(BaseConfig))} \cup ShortTtlConfigs
RefusedBilling == {r \in BillingResps : r.status = 400}

InitAuth == InitOf(SessionConfigs)

NextAuth ==
  \/ CollectBillingForDate(D1)
  \/ Login(LoginResps, PersistOutcomes)
  \/ EnsureBQTable({FALSE})
  \/ TablesInsert({"ok"})
  \/ Prices(OkRefs, OkPrices)
  \/ VmInstances(OkVms)
  \/ Billing(RefusedBilling)
  \/ Tick(UNION {ExpiryInstants(c) : c \in SessionConfigs})
  \/ EndExecution

SpecAuth == InitAuth /\ [][NextAuth]_vars

-----------------------------------------------------------------------------
(* Properties of the credential resolver *)

\* the configured lifetime of a token, in seconds
Ttl == IF config.ttl = Null THEN DefaultTtlSec ELSE config.ttl[1]
\* a cached token younger than the lifetime, in ZSTACK_CACHE or in the
\* Script Properties
FreshMemory == cache.token # "" /\ nowSec - cache.fetchedAtSec < Ttl
FreshDurable == durable.token # "" /\ nowSec - durable.ts < Ttl
LoginCalls(r) == Len(CallsOf(r, "login"))
\* the step in which collectBillingForDate calls loginZstack
LoginStep == run.pc = "login" /\ run'.pc # "login"
\* the login answered with a token; the durable write went through
YieldsToken == ResultsOf(run', "login") = <<"ok">>
Persisted == ResultsOf(run', "persist") = <<"ok">>

\* C5 as stated: with a fresh cached token loginZstack issues no login call;
\* otherwise it issues exactly one and, if that yields a token, ZSTACK_CACHE
\* and the Script Properties both hold the new token and the new issue time.
C5_BothCachesRefreshed ==
  [][LoginStep =>
       IF FreshMemory \/ FreshDurable
       THEN LoginCalls(run') = 0
       ELSE /\ LoginCalls(run') = 1
            /\ YieldsToken =>
                 /\ cache'.token = run'.sessionToken /\ cache'.fetchedAtSec = nowSec
                 /\ durable'.token = run'.sessionToken /\ durable'.ts = nowSec]_vars

\* C5, amended: with a fresh cached token loginZstack issues no login call
\* and leaves both caches' tokens as they are; otherwise it issues exactly
\* one and, if that yields a token, ZSTACK_CACHE holds the new token and the
\* new issue time, and the Script Properties hold them too when the write
\* went through; when the write failed part-way each of the two stored
\* values is the old or the new one, the issue time new only if the token is.
C5_MemoryRefreshedDurableBestEffort ==
  [][LoginStep =>
       IF FreshMemory \/ FreshDurable
       THEN /\ LoginCalls(run') = 0
            /\ durable' = durable
            /\ cache'.token = (IF FreshMemory THEN cache.token ELSE durable.token)
       ELSE /\ LoginCalls(run') = 1
            /\ YieldsToken =>
                 /\ cache'.token = run'.sessionToken /\ cache'.fetchedAtSec = nowSec
                 /\ Persisted => (durable'.token = run'.sessionToken /\ durable'.ts = nowSec)
                 /\ durable'.token \in {durable.token, run'.sessionToken}
                 /\ durable'.ts \in {durable.ts, nowSec}
                 /\ durable'.ts = nowSec => durable'.token = run'.sessionToken
            /\ ~YieldsToken => (cache = cache' /\ durable' = durable)]_vars

\* a login at the expiry of the token of an earlier call: both caches hold
\* the second token and its issue time
C5_Witness ==
  /\ runs >= 2 /\ nowSec > Now0
  /\ ResultsOf(run, "login") = <<"ok">> /\ ResultsOf(run, "persist") = <<"ok">>
  /\ cache.token = run.sessionToken /\ cache.fetchedAtSec = nowSec
  /\ durable.token = run.sessionToken /\ durable.ts = nowSec
  /\ nowSec - Ttl >= Now0

-----------------------------------------------------------------------------
(* SpecConfig: the configuration.  Every combination of credentials, with  *)
(* and without an account, and configurations with the base URL or a       *)
(* destination identifier unset; every login response, every outcome of    *)
(* the table check and creation.                                           *)

PlainOrRefused == {r \in BillingResps : r.status = 400 \/ r.spending = SpendingPlain}

InitConfig == InitOf(Configs)

NextConfig ==
  \/ CollectBillingForDate(D1)
  \/ Login(LoginResps, PersistOutcomes)
  \/ EnsureBQTable(BOOLEAN)
  \/ TablesInsert(CreateOutcomes)
  \/ Prices(OkRefs, OkPrices)
  \/ VmInstances(OkVms)
  \/ Billing(PlainOrRefused)
  \/ DeleteRowsForDate({"ok"})
  \/ InsertRowsToBQ(CleanOrDenied)

SpecConfig == InitConfig /\ [][NextConfig]_vars

-----------------------------------------------------------------------------
(* Properties of the configuration *)

\* the current call exchanged a login request with the server
LoginExchange ==
  \E i \in 1..Len(run.calls) :
    run.calls[i].op = "login" /\ run.calls[i].res # "invalidUrl"
\* the login of the current call was refused, threw, or had no token in it
LoginFailed ==
  \E i \in 1..Len(run.calls) :
    run.calls[i].op = "login" /\ run.calls[i].res \in {"error", "throw", "notoken"}
\* only a username and a password are configured
SessionOnly ==
  /\ config.username # "" /\ config.password # ""
  /\ config.apiKey = "" /\ ~(config.accessKey # "" /\ config.accessSecret # "")
NoLoad == ~Called(run, "billing") /\ ~Called(run, "delete") /\ ~Called(run, "insertAll")

\* C6 as stated: with an API key configured the call exchanges no login and
\* sends the Bearer header only; with an access-key pair (and no API key) it
\* exchanges no login and sends the access-key headers only.
C6_OneModeByPrecedence ==
  /\ config.apiKey # "" => (~LoginExchange /\ run.headers \in {"none", "Bearer"})
  /\ (config.apiKey = "" /\ config.accessKey # "" /\ config.accessSecret # "")
       => (~LoginExchange /\ run.headers \in {"none", "AccessKey"})

\* C7 as stated: with only a username and a password configured, a failed
\* login makes the call raise without a billing request, a delete or an insert.
C7_LoginFailureRaises ==
  (SessionOnly /\ LoginFailed) => (NoLoad /\ (Ended => run.outcome = "raised"))

\* C7, amended: with only a username and a password configured, a failed
\* login raises nothing by itself.  With an incomplete configuration the call
\* raises the configuration error; without any account identifier (configured
\* or in the login response) it raises for the missing account, after the
\* table check, with no billing request, delete or insert; with one, it goes
\* on with the Basic header (the OAuth header carrying the identifier found
\* in the response when there was one) and issues the billing request.
C7_LoginFailureFallsBack ==
  (SessionOnly /\ LoginFailed) =>
    IF config.apiUrl = "" \/ config.projectId = "" \/ config.datasetId = "" \/ config.tableId = ""
    THEN Ended /\ run.error = "Missing script properties" /\ NoLoad
    ELSE IF run.accountUuid = ""
    THEN /\ NoLoad
         /\ Ended => run.error \in {"Failed to create table", "Missing ZSTACK_ACCOUNT_UUID"}
         /\ run.error = "Missing ZSTACK_ACCOUNT_UUID" => Called(run, "tablesGet")
    ELSE \/ run.pc \in {"ensure", "create"}
         \/ Ended /\ run.error = "Failed to create table" /\ NoLoad
         \/ /\ run.headers = (IF run.sessionToken = "" THEN "Basic" ELSE "OAuth")
            /\ ResultsOf(run, "login") # <<"notoken">> => run.sessionToken = ""
            /\ run.pc \in {"prices", "vms", "billing"} \/ Called(run, "billing")

\* a refused login, an account configured: the records are loaded under the
\* Basic header
C7_Witness ==
  /\ SessionOnly /\ LoginFailed /\ run.headers = "Basic"
  /\ Called(run, "billing") /\ run.outcome = "ok" /\ run.inserted

\* C8 as stated: a call that raises for a missing base URL, credential set,
\* destination identifier or account identifier has made no external call
\* and no write before (the fetch refused for want of a URL aside).
C8_ConfigErrorBeforeAnyCall ==
  (Ended /\ run.error \in {"Missing script properties", "Missing ZSTACK_ACCOUNT_UUID"})
    => \A i \in 1..Len(run.calls) : run.calls[i] = Call("login", "invalidUrl")

-----------------------------------------------------------------------------
(* SpecRefs: the reference data.  An API key and an account are            *)
(* configured; every response to the three reference requests is possible, *)
(* executions end between calls.                                           *)

LoadedBilling == {r \in BillingResps : r.status = 400 \/ r.spending # <<>>}

InitRefs == InitOf(LoadConfigs)

NextRefs ==
  \/ CollectBillingForDate(D1)
  \/ EnsureBQTable({FALSE})
  \/ TablesInsert({"ok"})
  \/ Prices(RefsResps, PricesResps)
  \/ VmInstances(VmResps)
  \/ Billing(LoadedBilling)
  \/ DeleteRowsForDate({"ok"})
  \/ InsertRowsToBQ(CleanOrDenied)
  \/ EndExecution

SpecRefs == InitRefs /\ [][NextRefs]_vars

\* a reference request of the current call failed
PricesFailed ==
  \E i \in 1..Len(run.calls) :
    run.calls[i].op \in {"priceRefs", "prices"} /\ run.calls[i].res # "ok"
VmFailed ==
  \E i \in 1..Len(run.calls) :
    run.calls[i].op = "vmInstances" /\ run.calls[i].res # "ok"

\* C10: a failed price-table, price-list or VM request does not make the
\* call raise: the call goes on to the billing request and ends as the
\* billing response and the insert decide, loading the derived records;
\* these have no resource_used and no resource_unit when a price request
\* failed, no cpu_core and no memory when the VM request failed.
C10_ReferenceFetchBestEffort ==
  /\ (PricesFailed \/ VmFailed) =>
       /\ run.pc \notin {"prices", "vms", "billing"} => Called(run, "billing")
       /\ run.outcome = "raised" =>
            \/ run.billing # Null /\ run.billing[1].status >= 400
                 /\ run.error = "ZStack API error"
            \/ ResultsOf(run, "insertAll") = <<AccessDeniedMsg.text>>
                 /\ run.error = AccessDeniedMsg.text
       /\ (run.billing # Null /\ run.billing[1].status < 400)
            => (run.rowsBatch # <<>> /\ run.pc \in {"delete", "insert", "idle"})
       /\ (Ended /\ ResultsOf(run, "insertAll") = <<"clean">>)
            => (run.outcome = "ok" /\ RowsNow = run.rowsBatch)
  /\ PricesFailed =>
       \A i \in 1..Len(run.rowsBatch) :
         run.rowsBatch[i].resource_used = Null /\ run.rowsBatch[i].resource_unit = Null
  /\ VmFailed =>
       \A i \in 1..Len(run.rowsBatch) :
         run.rowsBatch[i].cpu_core = Null /\ run.rowsBatch[i].memory = Null

\* the three failures in one call that loads the VM's two inventory rows
C10_Witness ==
  /\ PricesFailed /\ VmFailed /\ run.outcome = "ok"
  /\ run.billing = Some(BillingResp(200, TRUE, SpendingInv))
  /\ Len(run.rowsBatch) = 2 /\ RowsNow = run.rowsBatch
  /\ run.rowsBatch[1].cost = 4

-----------------------------------------------------------------------------
(* SpecMonth: one call of collectBillingForMonth on a fresh installation.   *)
(* An API key and an account are configured; each day's billing request    *)
(* may be refused and each day's insert may throw.                         *)

\* lines 376-390: the argument checks and the number of days
CollectBillingForMonth(arg) ==
  /\ run.pc = "idle" /\ ~month.active /\ month.outcome = "none"
  /\ month' =
       IF ~arg.wellFormed
       THEN [NoMonth EXCEPT !.arg = arg, !.outcome = "raised"]
       ELSE IF arg.m < 1 \/ arg.m > 12
       THEN [NoMonth EXCEPT !.arg = arg, !.outcome = "raised"]
       ELSE [NoMonth EXCEPT !.arg = arg, !.active = TRUE, !.outcome = "running",
                            !.d = 1, !.lastDay = DaysInMonth(arg.y, arg.m)]
  /\ UNCHANGED <<test, peer, config, durable, cache, nowSec, tableExists, table, run, prev, runs>>

\* line 394: y + "-" + mm + "-" + dd.  The month and the day are padded to
\* two digits, the year is not: for a year below 1000 the string is no
\* YYYY-MM-DD and the Date constructor does not read it
MonthDateStr(y, m, d) ==
  IF y >= 1000 THEN DateOf(y, m, d) ELSE [kind |-> "text", y |-> y, m |-> m, d |-> d]

\* lines 391-398: the loop calls collectBillingForDate for day d
MonthDay ==
  /\ month.active /\ ~month.sleeping /\ run.pc = "idle" /\ month.d <= month.lastDay
  /\ runs' = runs + 1
  /\ prev' = Summary(run)
  /\ Commit(Begin(MonthDateStr(month.arg.y, month.arg.m, month.d)))
  /\ UNCHANGED <<test, peer, config, durable, cache, nowSec, tableExists, table>>

\* line 407: Utilities.sleep(1000) after each day's call
MonthSleep ==
  /\ month.active /\ month.sleeping /\ run.pc = "idle"
  /\ nowSec' = nowSec + 1
  /\ month' = [month EXCEPT !.sleeping = FALSE]
  /\ UNCHANGED <<test, peer, config, durable, cache, tableExists, table, run, prev, runs>>

\* line 409: the loop has ended and the results are returned
MonthReturn ==
  /\ month.active /\ ~month.sleeping /\ run.pc = "idle" /\ month.d > month.lastDay
  /\ month' = [month EXCEPT !.active = FALSE, !.outcome = "returned"]
  /\ UNCHANGED <<test, peer, config, durable, cache, nowSec, tableExists, table, run, prev, runs>>

InitMonth == InitOf(LoadConfigs)

NextMonth ==
  \/ \E arg \in MonthArgs : CollectBillingForMonth(arg)
  \/ MonthDay
  \/ MonthSleep
  \/ MonthReturn
  \/ EnsureBQTable({FALSE})
  \/ TablesInsert({"ok"})
  \/ Prices(OkRefs, OkPrices)
  \/ VmInstances(OkVms)
  \/ Billing(PlainOrRefused)
  \/ DeleteRowsForDate({"ok"})
  \/ InsertRowsToBQ(CleanOrDenied)

SpecMonth == InitMonth /\ [][NextMonth]_vars

\* the days of month m of year y in the calendar
CalendarDays(y, m) ==
  IF m = 2 THEN (IF (y % 4 = 0 /\ y % 100 # 0) \/ y % 400 = 0 THEN 29 ELSE 28)
  ELSE IF m \in {4, 6, 9, 11} THEN 30 ELSE 31
ValidMonth == month.arg.wellFormed /\ month.arg.m \in 1..12

\* C4: for a valid yearMonth collectBillingForMonth never raises; it calls
\* collectBillingForDate for day 1, 2, ... of the month in turn, once each,
\* and has pushed one entry per finished day in that order; at its return
\* every calendar day of the month has its call and its entry; an entry has
\* ok = true exactly when its day's call returned, that is (here) when the
\* day's rows were loaded.
C4_MonthOncePerDay ==
  /\ month.outcome = "raised" => ~ValidMonth
  /\ month.outcome \in {"running", "returned"} =>
       LET n == Len(month.results)
           last == CalendarDays(month.arg.y, month.arg.m)
           Day(i) == DateOf(month.arg.y, month.arg.m, i)
       IN  /\ ValidMonth
           /\ n <= last
           /\ \A i \in 1..n :
                /\ month.results[i].date = Day(i)
                /\ month.results[i].ok = (RowsForDate(table, Day(i)) # <<>>)
           /\ IF run.pc = "idle"
              THEN /\ runs = n
                   /\ n >= 1 => /\ run.dateStr = Day(n)
                                /\ month.results[n].ok = (run.outcome = "ok")
              ELSE runs = n + 1 /\ run.dateStr = Day(n + 1) /\ n < last
           /\ month.outcome = "returned" => (n = last /\ runs = last)

\* February 2024 returned with its 29 entries, day 15 the only failure
C4_Witness ==
  /\ month.outcome = "returned" /\ month.arg = MonthOf(2024, 2)
  /\ Len(month.results) = 29
  /\ \A i \in 1..29 : month.results[i].ok = (i # 15)

-----------------------------------------------------------------------------
(* SpecInsert: the bulk insert.  An API key and an account are configured, *)
(* the billing response carries records; every outcome of insertAll and    *)
(* every message of its errors is possible.                                *)

PlainBilling == {r \in BillingResps : r.spending = SpendingPlain}

InitInsert == InitOf(LoadConfigs)

NextInsert ==
  \/ CollectBillingForDate(D1)
  \/ EnsureBQTable({FALSE})
  \/ TablesInsert({"ok"})
  \/ Prices(OkRefs, OkPrices)
  \/ VmInstances(OkVms)
  \/ Billing(PlainBilling)
  \/ DeleteRowsForDate({"ok"})
  \/ InsertRowsToBQ(InsertOutcomes)

SpecInsert == InitInsert /\ [][NextInsert]_vars

\* the outcomes of the bulk-insert attempts of the current call, in order
Attempts == ResultsOf(run, "insertAll")

\* C11: insertRowsToBQ issues at most 3 insertAll attempts; an attempt
\* without insertErrors is the last one and makes the call return, and the
\* call returns from the load only so.
C11_AtMostThreeAttempts ==
  /\ Len(Attempts) <= 3
  /\ run.attempt = Len(Attempts)
  /\ \A i \in 1..Len(Attempts) :
       Attempts[i] = "clean" => (i = Len(Attempts) /\ Ended /\ run.outcome = "ok")
  /\ (Ended /\ run.outcome = "ok" /\ Attempts # <<>>) => Attempts[Len(Attempts)] = "clean"
  /\ run.inserted = (Attempts # <<>> /\ Attempts[Len(Attempts)] = "clean")
  /\ (run.pc = "insert" /\ Attempts # <<>>) => Len(Attempts) < 3

\* two rejections, then an accepted third attempt
C11_Witness ==
  /\ Attempts = <<"rowErrors", "rowErrors", "clean">>
  /\ run.outcome = "ok" /\ RowsNow = run.rowsBatch

\* the attempt threw an error
Threw(a) == a \notin {"clean", "rowErrors"}
\* the texts that tell of a table schema not yet visible or of the
\* destination table not found
TransientTexts == {TableNotFoundMsg.text, TableNotFoundMsg2.text, NoSchemaMsg.text}

\* C12 as stated: an attempt that threw is followed by another attempt only
\* when its error tells of a schema not yet visible or of the destination
\* table not found; after any other thrown error the call has raised that
\* error and no attempt follows.
C12_RetryOnlyTransient ==
  \A i \in 1..Len(Attempts) :
    Threw(Attempts[i]) =>
      /\ i < Len(Attempts) => Attempts[i] \in TransientTexts
      /\ Attempts[i] \notin TransientTexts =>
           (i = Len(Attempts) /\ Ended /\ run.outcome = "raised" /\ run.error = Attempts[i])

\* C23: when the third attempt has failed (a response with row errors or a
\* thrown error) the call has ended by raising, never by returning, and the
\* error raised is the one met on the third attempt.
C23_LastErrorRaised ==
  (Len(Attempts) = 3 /\ Attempts[3] # "clean") =>
    /\ Ended
    /\ run.outcome = "raised"
    /\ ~run.inserted
    /\ run.error = run.observed[3]

\* three failed attempts with three different errors
C23_Witness ==
  /\ Attempts = <<"rowErrors", TableNotFoundMsg.text, "rowErrors">>
  /\ run.observed[1] = "BigQuery insertAll returned errors: invalid: no such field"
  /\ run.observed[3] = "BigQuery insertAll returned errors: invalid: field not found"
  /\ run.error = run.observed[3]
  /\ RowsNow = <<>>

-----------------------------------------------------------------------------
(* collectBillingForPreviousMonth, invoked at instants around the turn of a
   month and of a year *)

\* the argument collectBillingForPreviousMonth passes on when the clock
\* shows now (seconds): the first day of now's UTC month, one day back,
\* formatted as yyyy-MM in Asia/Jakarta
PreviousMonthArg(now) ==
  LET utc == CivilFromDays(now \div 86400)
      firstOfThisMonth == EpochDay(utc.y, utc.m, 1) * 86400
      lastOfPrev == firstOfThisMonth - 86400
      local == CivilFromDays((lastOfPrev + 7 * 3600) \div 86400)
  IN  MonthOf(local.y, local.m)

CollectBillingForPreviousMonth ==
  CollectBillingForMonth(PreviousMonthArg(nowSec))

\* 2025-02-28 23:59:59, 2025-03-01 00:00:00, 03:00:00 and 07:00:00,
\* 2026-01-01 00:00:00 and 07:00:00 and 2026-01-15 12:00:00 in Asia/Jakarta
PrevMonthInstants ==
  {1740761999, 1740762000, 1740772800, 1740787200,
   1767200400, 1767225600, 1768453200}

InitPrevMonth == InitOf(LoadConfigs)

NextPrevMonth ==
  \/ month.outcome = "none" /\ Tick(PrevMonthInstants)
  \/ CollectBillingForPreviousMonth
  \/ MonthDay
  \/ MonthSleep
  \/ MonthReturn
  \/ EnsureBQTable({FALSE})
  \/ TablesInsert({"ok"})
  \/ Prices(OkRefs, OkPrices)
  \/ VmInstances(OkVms)
  \/ Billing(PlainBilling)
  \/ DeleteRowsForDate({"ok"})
  \/ InsertRowsToBQ({Clean})

SpecPrevMonth == InitPrevMonth /\ [][NextPrevMonth]_vars

\* the month of the calendar that the instant now falls in on a clock seven
\* hours east of UTC, as months counted from year 0
JakartaMonthIndex(now) ==
  LET day == (now + 25200) \div 86400
  IN  CHOOSE k \in (1970 * 12)..(2100 * 12) :
        LET y == k \div 12
            m == (k % 12) + 1
            first == 365 * (y - 1970)
                       + Cardinality({j \in 1970..(y - 1) : CalendarDays(j, 2) = 29})
                       + <<0, 31, 59, 90, 120, 151, 181, 212, 243, 273, 304, 334>>[m]
                       + (IF m > 2 /\ CalendarDays(y, 2) = 29 THEN 1 ELSE 0)
        IN  first <= day /\ day < first + CalendarDays(y, m)

\* C21 as stated: whenever collectBillingForPreviousMonth is invoked, the
\* month handed to collectBillingForMonth is the calendar month just before
\* the month the instant of the call falls in, reckoned in Asia/Jakarta.
C21_PreviousMonthInJakarta ==
  [][(month.outcome = "none" /\ month'.outcome # "none") =>
       month'.arg.y * 12 + (month'.arg.m - 1) = JakartaMonthIndex(nowSec) - 1]_vars

-----------------------------------------------------------------------------
(* The date argument: calls with a date, with no string and with strings
   that are no date *)

InitDate == InitOf(LoadConfigs)

NextDate ==
  \/ \E ds \in {D1} \cup BadDateArgs \cup MalformedDateArgs : CollectBillingForDate(ds)
  \/ EnsureBQTable({FALSE})
  \/ TablesInsert({"ok"})
  \/ Prices(OkRefs, OkPrices)
  \/ VmInstances(OkVms)
  \/ Billing(PlainOrRefused)
  \/ DeleteRowsForDate(DeleteOutcomes)
  \/ InsertRowsToBQ({Clean, RowErrors(InvalidRowMsg)})

SpecDate == InitDate /\ [][NextDate]_vars

\* C22 as stated: a call whose argument is not a YYYY-MM-DD string has
\* raised without any external call and without a billing request.
C22_MalformedDateRaisesFirst ==
  run.dateStr.kind # "ymd" =>
    /\ run.calls = <<>>
    /\ run.request = <<>>
    /\ run.outcome = "raised"

\* SpecAccounts: the durable token cache across a change of credentials.
\* A username and a password are configured; between executions an operator
\* may set ZSTACK_USERNAME and ZSTACK_PASSWORD to those of another account.
\* The server answers a login with the session and the account of the
\* username that logged in.
UserConfigs ==
  {WithUser(BaseConfig), [BaseConfig EXCEPT !.username = "tenant", !.password = "secret2"]}
TokenOf(username) == IF username = "admin" THEN Tok1 ELSE Tok2
AccountOf(username) == IF username = "admin" THEN Acc1 ELSE "tenant-b"
ServerLogin(cfg) ==
  [kind |-> "ok",
   body |-> LoginBody(Some([uuid |-> TokenOf(cfg.username),
                            accountUuid |-> AccountOf(cfg.username),
                            userUuid |-> ""]), "", "", "", "")]

\* the operator edits the Script Properties between two executions
SetCredentials(configs) ==
  /\ run.pc = "idle"
  /\ ~month.active
  /\ cache = InitCache
  /\ \E c \in configs : c # config /\ config' = c
  /\ UNCHANGED <<test, peer, durable, cache, nowSec, tableExists, table, run, prev, runs, month>>

InitAccounts == InitOf(UserConfigs)

NextAccounts ==
  \/ CollectBillingForDate(D1)
  \/ Login({ServerLogin(config)}, {0, 3})
  \/ EnsureBQTable({FALSE})
  \/ TablesInsert({"ok"})
  \/ Prices(OkRefs, OkPrices)
  \/ VmInstances(OkVms)
  \/ Billing(RefusedBilling)
  \/ Tick(ExpiryInstants(BaseConfig))
  \/ EndExecution
  \/ TestZstackAuth({ServerLogin(config)}, {0, 3})
  \/ SetCredentials(UserConfigs)

SpecAccounts == InitAccounts /\ [][NextAccounts]_vars

\* C28 as stated: the session token a call gets from loginZstack, from a
\* cache or from a login, is the one issued to the configured username, and
\* the account it gets is that username's account.
C28_TokenOfConfiguredAccount ==
  [][(run.pc = "login" /\ run'.sessionToken # "") =>
       /\ run'.sessionToken = TokenOf(config.username)
       /\ run'.accountUuid = AccountOf(config.username)]_vars

\* SpecFrame: calls for two dates and for a string with a quote in it, each
\* loading the same one-record response; the DELETE may fail, the insert
\* is rejected for the rows of the quoted string.  Next to
\* them an operator runs testInsertToBQ, whose steps fall between theirs.
InitFrame == InitOf(LoadConfigs)

\* the outcomes of insertAll in a call: rows whose billing_date is no date
\* are rejected, the others accepted
FrameInsertOutcomes ==
  IF run.dateStr.kind = "ymd" THEN {Clean} ELSE {RowErrors(InvalidRowMsg)}

\* the outcomes of insertAll in testInsertToBQ: the first attempt may be
\* rejected, a later one is accepted
TestOutcomes == IF test.attempt = 0 THEN {Clean, RowErrors(InvalidRowMsg)} ELSE {Clean}

NextFrame ==
  \/ \E ds \in Dates \cup QuotedDateArgs : CollectBillingForDate(ds)
  \/ TestInsertToBQ
  \/ TestEnsureBQTable({FALSE})
  \/ TestTablesInsert({"ok"})
  \/ TestGetSchema
  \/ TestInsertRowsToBQ(TestOutcomes)
  \/ TestSleep
  \/ EnsureBQTable({FALSE})
  \/ TablesInsert({"ok"})
  \/ Prices(OkRefs, OkPrices)
  \/ VmInstances(OkVms)
  \/ Billing(PlainBilling)
  \/ DeleteRowsForDate(DeleteOutcomes)
  \/ InsertRowsToBQ(FrameInsertOutcomes)

SpecFrame == InitFrame /\ [][NextFrame]_vars

\* C29 as stated: no step of a call changes the rows whose billing date is
\* not the argument of the call: the DELETE removes none of them and the
\* insert adds none.
C29_OtherDatesUnchanged ==
  [][run' # run =>
       RowsNotForDate(table', run'.dateStr) = RowsNotForDate(table, run'.dateStr)]_vars

\* SpecRace: two overlapping executions.  A username and a password are
\* configured; while the current execution makes its calls, another one (a
\* trigger firing during a manual run) is inside loginZstack, and its three
\* setProperty calls are interleaved with the steps of the current one.
\* Every login yields a token and an account, every setProperty succeeds.
PeerLoginResps ==
  {[kind |-> "ok", body |-> LoginBody(Some([uuid |-> Tok2, accountUuid |-> Acc1,
                                           userUuid |-> ""]), "", "", "", "")]}

\* lines 903-1006 in the other execution: nowSec is read, no fresh token is
\* found in the Script Properties, the login is made and parsed.  Its own
\* three getProperty calls are taken at one instant: the current execution
\* writes only after finding the properties stale, so a read that falls
\* between those writes sees a stale entry as well or returns the stored
\* token, upon which this execution writes nothing
PeerLogin(resps) ==
  /\ peer.pc = "idle"
  /\ HasUserPass(config)
  /\ config.apiUrl # ""
  /\ ~DurableHit(config, durable, nowSec)
  /\ \E resp \in resps :
       LET p == ParseLogin(resp.body)
       IN  /\ resp.kind = "ok"
           /\ p.token # ""
           /\ peer' = [pc |-> "fetched", token |-> p.token, ts |-> nowSec,
                       account |-> p.accountUuid]
  /\ UNCHANGED <<test, config, durable, cache, nowSec, tableExists, table, run, prev, runs, month>>

\* lines 1008-1011 in the other execution, one setProperty call at a time
PeerSetProperty ==
  /\ peer.pc \in {"fetched", "token", "ts"}
  /\ durable' = PeerStep([durable |-> durable, peer |-> peer]).durable
  /\ peer' = PeerStep([durable |-> durable, peer |-> peer]).peer
  /\ UNCHANGED <<test, config, cache, nowSec, tableExists, table, run, prev, runs, month>>

RaceInstants == {Now0 + 5} \cup ExpiryInstants(BaseConfig)

InitRace == InitOf({WithUser(BaseConfig)})

NextRace ==
  \/ CollectBillingForDate(D1)
  \/ Login({ServerLogin(config)}, {3})
  \/ EnsureBQTable({FALSE})
  \/ TablesInsert({"ok"})
  \/ Prices(OkRefs, OkPrices)
  \/ VmInstances(OkVms)
  \/ Billing(RefusedBilling)
  \/ Tick(RaceInstants)
  \/ TestZstackAuth({ServerLogin(config)}, {3})
  \/ PeerLogin(PeerLoginResps)
  \/ PeerSetProperty

SpecRace == InitRace /\ [][NextRace]_vars

\* C30 as stated: when no execution is in the middle of its setProperty
\* calls, the Script Properties hold nothing, or the token, timestamp and
\* account of the login of the current execution, or those of the login of
\* the overlapping one.
C30_DurableEntryFromOneLogin ==
  peer.pc \in {"idle", "done"} =>
    \/ durable = [token |-> "", ts |-> 0, account |-> ""]
    \/ durable = [token |-> cache.token, ts |-> cache.fetchedAtSec,
                  account |-> cache.accountUuid]
    \/ durable = [token |-> peer.token, ts |-> peer.ts, account |-> peer.account]

\* C26 as stated: once a reference lookup has recorded a result from a
\* successful response in this execution (a price table for the account, be
\* it none; a price list for the table, be it empty; the VM maps), a later
\* call with the same argument issues no request for it and gets the
\* recorded result.
C26_ReferenceLookupsMemoized ==
  [][/\ (run.pc = "prices" /\ run.accountUuid \in DOMAIN cache.priceTable) =>
          /\ ~Called(run', "priceRefs")
          /\ LET t == cache.priceTable[run.accountUuid]
             IN  /\ t = "" => run'.pricesByTable = Null
                 /\ (t # "" /\ t \in DOMAIN cache.pricesByTable) =>
                      /\ ~Called(run', "prices")
                      /\ run'.pricesByTable = Some(cache.pricesByTable[t])
     /\ (run.pc = "vms" /\ cache.vmMaps # Null) =>
          /\ ~Called(run', "vmInstances")
          /\ run'.vmMaps = cache.vmMaps[1]]_vars

\* C25 as stated: ensureBQTable goes on to Tables.insert exactly when the
\* table is absent; and a call whose Tables.insert failed has raised and
\* issued no billing request, DELETE or insertAll.
C25_CreateExactlyWhenAbsent ==
  [][/\ (run.pc = "ensure" /\ run'.pc # "ensure") =>
          (run'.pc = "create" <=> ~tableExists)
     /\ (run.pc = "create" /\ run'.pc # "create") =>
          /\ Called(run', "tablesInsert")
          /\ ResultsOf(run', "tablesInsert") = <<"throw">> =>
               /\ run'.outcome = "raised"
               /\ ~Called(run', "billing")
               /\ ~Called(run', "delete")
               /\ ~Called(run', "insertAll")]_vars

-----------------------------------------------------------------------------
(* The usage normalizer: one call per state space, over payloads with
   several entries, details, inventory arrays and elements, and over price
   lists and VM inventories that do and do not know the payload's resources *)

\* cpu prices with overlapping intervals, a memory price without a start, a
\* per-day VM price and a volume price without an amount
PriceList2 ==
  <<Price("cpu", "tbl1", Some(2), "HOURS", "", Some(T0), Null),
    Price("cpu", "tbl1", Some(4), "HOURS", "", Some(T(20133, 0)), Some(T(20133, 2 * MsPerHour))),
    Price("cpu", "tbl1", Some(6), "HOURS", "", Some(T(20133, MsPerHour)),
          Some(T(20133, 3 * MsPerHour))),
    Price("memory", "tbl1", Some(1), "HOURS", "GIGABYTE", Null, Some(T(20133, 0))),
    Price("VM", "tbl1", Some(8), "DAYS", "unit", Some(T(20133, 2 * MsPerHour)), Null),
    Price("dataVolume", "tbl1", Null, "HOURS", "", Some(T0), Null)>>
\* the same entries in the opposite order
PriceList3 == [i \in 1..Len(PriceList2) |-> PriceList2[Len(PriceList2) + 1 - i]]
NormPrices ==
  {[kind |-> "ok", inventories |-> PriceList1],
   [kind |-> "ok", inventories |-> PriceList2],
   [kind |-> "ok", inventories |-> PriceList3],
   [kind |-> "error", inventories |-> <<>>]}

\* vm1 with four cores, no memory size and no volumes; vm2 without a core
\* count, owning vol2
VmInventory2 ==
  <<[uuid |-> "vm1", cpuNum |-> Some(4), memorySize |-> Null, allVolumes |-> Null],
    [uuid |-> "vm2", cpuNum |-> Null, memorySize |-> Some(BytesPerGB),
     allVolumes |-> Some(<<[uuid |-> "vol2", size |-> Null]>>)]>>
NormVms ==
  {[kind |-> "ok", inventories |-> VmInventory1],
   [kind |-> "ok", inventories |-> VmInventory2],
   [kind |-> "throw", inventories |-> <<>>]}

\* a VM entry whose first detail has seven cpu-inventory elements around the
\* price intervals, a memory and a gpuINVENTORY element and an array that is
\* no inventory, and whose second detail has no inventory and a spending of
\* 0; a volume entry whose first detail has no spending of its own and whose
\* second has an empty inventory array
SpendingMixed ==
  <<Entry("VM", Some(20),
      <<Detail("vm1", "web", "", Some(20),
          <<Field("cpuInventory", TRUE,
              <<Inv(Some(T(19999, 0)), Some(T(19999, MsPerHour)), Some(1), Null),
                Inv(Some(T0), Some(T(20000, 2 * MsPerHour)), Some(2), Null),
                Inv(Some(T(20133, 0)), Some(T(20133, MsPerHour)), Some(3), Null),
                Inv(Some(T(20133, MsPerHour)), Some(T(20133, 2 * MsPerHour)), Some(4), Null),
                Inv(Some(T(20133, 2 * MsPerHour)), Some(T(20133, 4 * MsPerHour)), Some(5), Null),
                Inv(Some(T(20133, 3 * MsPerHour)), Some(T(20133, 4 * MsPerHour)), Null, Null),
                Inv(Null, Null, Some(6), Null)>>),
            Field("tags", TRUE, <<Inv(Null, Null, Some(99), Null)>>),
            Field("memoryInventory", TRUE,
              <<Inv(Some(T(20132, 20 * MsPerHour)), Some(T(20132, 22 * MsPerHour)), Some(7), Null)>>),
            Field("gpuINVENTORY", TRUE, <<Inv(Null, Null, Some(8), Null)>>)>>),
        Detail("vm2", "db", "VM", Some(0), <<>>)>>),
    Entry("dataVolume", Some(7),
      <<Detail("vol1", "disk", "", Null, <<>>),
        Detail("vol2", "scratch", "", Some(3), <<Field("sizeInventory", TRUE, <<>>)>>)>>)>>
\* a root volume of vm1 and vm1 itself under a spending type "cpu", each with
\* cpu-inventory elements; the volume with a size-inventory element too
SpendingOffVm ==
  <<Entry("rootVolume", Some(6),
      <<Detail("vol1", "disk", "", Some(6),
          <<Field("cpuInventory", TRUE,
              <<Inv(Some(T(20133, 0)), Some(T(20133, 2 * MsPerHour)), Some(4), Null),
                Inv(Some(T(20133, 2 * MsPerHour)), Some(T(20133, 3 * MsPerHour)), Some(1), Null),
                Inv(Some(T(20133, 3 * MsPerHour)), Some(T(20133, 4 * MsPerHour)), Some(1), Null)>>),
            Field("sizeInventory", TRUE, <<Inv(Null, Null, Some(2), Null)>>)>>)>>),
    Entry("cpu", Some(3),
      <<Detail("vm1", "web", "", Some(3),
          <<Field("cpuInventory", TRUE,
              <<Inv(Some(T(20133, 0)), Some(T(20133, 2 * MsPerHour)), Some(3), Null)>>)>>)>>)>>
\* a detail whose memoryInventory is no array
SpendingNonArray ==
  <<Entry("memory", Some(5),
      <<Detail("vm1", "web", "VM", Some(2), <<Field("memoryInventory", FALSE, <<>>)>>)>>)>>
NormSpendings ==
  {SpendingInv, SpendingPlain, SpendingMixed, SpendingOffVm, SpendingNonArray}
NormBilling == {BillingResp(200, TRUE, sp) : sp \in NormSpendings}

InitNormalize == InitOf(LoadConfigs)

NextNormalize ==
  \/ runs = 0 /\ CollectBillingForDate(D1)
  \/ EnsureBQTable({FALSE})
  \/ TablesInsert({"ok"})
  \/ Prices(OkRefs, NormPrices)
  \/ VmInstances(NormVms)
  \/ Billing(NormBilling)
  \/ DeleteRowsForDate({"ok"})
  \/ InsertRowsToBQ({Clean})

SpecNormalize == InitNormalize /\ [][NextNormalize]_vars

\* the spending array of the billing response of the call
Billed == run.billing # Null
Payload == run.billing[1].spending
\* the records of the batch with resource id uuid (the details of one
\* payload have different resource ids)
RecordsOf(uuid) ==
  LET ForUuid(r) == r.resource_id = uuid
  IN  SelectSeq(run.rowsBatch, ForUuid)
\* the keys in the payloads that end in "Inventory", whatever the case
EndsInInventory == {"sizeInventory", "cpuInventory", "memoryInventory", "gpuINVENTORY"}
\* the positions of the inventory arrays among the fields of a detail
InventoryArrays(dt) ==
  {k \in 1..Len(dt.fields) : dt.fields[k].isArray /\ dt.fields[k].key \in EndsInInventory}

\* C14: for every detail with inventory arrays, each record emitted for it
\* carries the detail's resource id and name, the entry's spending type, the
\* detail's type (or the spending type when it has none) and the key of one
\* of the inventory arrays as inventory type, and for each inventory array
\* there are as many records of its key as it has elements, so the records
\* of the detail number the elements of all its inventory arrays.
C14_OneRecordPerElement ==
  Billed =>
    \A s \in 1..Len(Payload) : \A i \in 1..Len(Payload[s].details) :
      LET dt == Payload[s].details[i]
          recs == RecordsOf(dt.resourceUuid)
      IN  InventoryArrays(dt) # {} =>
            /\ \A j \in 1..Len(recs) :
                 /\ recs[j].resource_name = dt.resourceName
                 /\ recs[j].spending_type = Payload[s].spendingType
                 /\ recs[j].resource_type =
                      (IF dt.type # "" THEN dt.type ELSE Payload[s].spendingType)
                 /\ \E k \in InventoryArrays(dt) :
                      recs[j].inventory_type = <<dt.fields[k].key>>
            /\ \A k \in InventoryArrays(dt) :
                 Cardinality({j \in 1..Len(recs) :
                                recs[j].inventory_type = <<dt.fields[k].key>>})
                   = Len(dt.fields[k].elems)

C14_Witness ==
  /\ Billed /\ Payload = SpendingMixed
  /\ Len(RecordsOf("vm1")) = 9
  /\ RecordsOf("vm1")[9].inventory_type = <<"gpuINVENTORY">>
  /\ RecordsOf("vm1")[8].inventory_type = <<"memoryInventory">>
  /\ run.outcome = "ok"

\* the details of the payload, as (entry, detail) positions
DetailsOf(spending) ==
  {<<s, i>> : s \in 1..Len(spending), i \in 1..4} \cap
  UNION {{<<s, i>> : i \in 1..Len(spending[s].details)} : s \in 1..Len(spending)}
\* the detail has no inventory sub-entry: no inventory array, or none with
\* an element
NoSubEntries(dt) == \A k \in InventoryArrays(dt) : dt.fields[k].elems = <<>>

\* C15 as stated: every detail of the payload has at least one record, a
\* detail without inventory sub-entries (no inventory array, or only empty
\* ones) has exactly one, and the batch has at least as many records as the
\* payload has details.
C15_EveryDetailRepresented ==
  Billed =>
    /\ \A p \in DetailsOf(Payload) :
         LET dt == Payload[p[1]].details[p[2]]
         IN  /\ Len(RecordsOf(dt.resourceUuid)) >= 1
             /\ NoSubEntries(dt) => Len(RecordsOf(dt.resourceUuid)) = 1
    /\ Len(run.rowsBatch) >= Cardinality(DetailsOf(Payload))

\* C16 as stated: a detail without inventory arrays has exactly one record;
\* its cost is the detail's spending when the detail has one, 0 included,
\* and the entry's spending (0 when that is missing too) otherwise; its
\* inventory type, resource used and resource unit are null and it carries
\* the raw detail.
C16_PlainDetailCost ==
  Billed =>
    \A p \in DetailsOf(Payload) :
      LET sp == Payload[p[1]]
          dt == sp.details[p[2]]
          recs == RecordsOf(dt.resourceUuid)
      IN  InventoryArrays(dt) = {} =>
            /\ Len(recs) = 1
            /\ recs[1].cost = (IF dt.spending # <<>> THEN dt.spending[1]
                               ELSE IF sp.spending # <<>> THEN sp.spending[1] ELSE 0)
            /\ recs[1].inventory_type = <<>>
            /\ recs[1].resource_used = <<>>
            /\ recs[1].resource_unit = <<>>
            /\ recs[1].raw_json = <<dt>>

\* the price list of the call, empty when there is none
PriceEntries == IF run.pricesByTable = <<>> THEN <<>> ELSE run.pricesByTable[1]
\* the start of the effective interval of a price entry; an entry without
\* one is effective from the beginning of time
EffectiveFrom(p) == IF p.dateInLong # <<>> THEN p.dateInLong[1] ELSE [d |-> 0, ms |-> 0]
NotAfter(a, b) == a.d < b.d \/ (a.d = b.d /\ a.ms <= b.ms)
\* the positions of the price entries named name whose interval covers t
Covering(name, t) ==
  {k \in 1..Len(PriceEntries) :
     /\ PriceEntries[k].resourceName = name
     /\ NotAfter(EffectiveFrom(PriceEntries[k]), t)
     /\ \/ PriceEntries[k].endDateInLong = <<>>
        \/ ~NotAfter(PriceEntries[k].endDateInLong[1], t)}
\* the lookup made for record r: its candidate names in order and the entry
\* findApplicablePrice returns at the record's start time
CandidatesOf(r) == PriceCandidates(r.resource_type, r.spending_type, r.inventory_type)
PriceOf(r) ==
  FindApplicablePrice(run.pricesByTable, r.resource_type, r.spending_type,
                      r.inventory_type, r.date_start_ms)
InventoryRecords == {j \in 1..Len(run.rowsBatch) : run.rowsBatch[j].inventory_type # <<>>}

\* C17: for the lookup of every inventory record, at its start time t: a
\* returned entry is named after one of the candidates, no earlier candidate
\* has an entry covering t, the entry covers t (from <= t, and t < until or
\* no until) and no entry of that name covering t starts later; when nothing
\* is returned no candidate has an entry covering t, so an entry from T0
\* without an end is found for every t >= T0.
C17_LatestCoveringPrice ==
  \A j \in InventoryRecords :
    LET r == run.rowsBatch[j]
        t == r.date_start_ms
        cands == CandidatesOf(r)
        got == PriceOf(r)
    IN  /\ got # <<>> =>
             \E c \in 1..Len(cands) :
               /\ got[1].resourceName = cands[c]
               /\ \A b \in 1..(c - 1) : Covering(cands[b], t) = {}
               /\ \E k \in Covering(cands[c], t) : PriceEntries[k] = got[1]
               /\ \A k \in Covering(cands[c], t) :
                    NotAfter(EffectiveFrom(PriceEntries[k]), EffectiveFrom(got[1]))
        /\ got = <<>> => \A c \in 1..Len(cands) : Covering(cands[c], t) = {}

\* the reversed price list, the record of the element starting one hour into
\* the day: of the three cpu entries covering it the one starting then
C17_Witness ==
  /\ Billed /\ Payload = SpendingMixed
  /\ run.pricesByTable = <<PriceList3>>
  /\ run.rowsBatch[4].date_start_ms = T(20133, MsPerHour)
  /\ Cardinality(Covering("cpu", T(20133, MsPerHour))) = 3
  /\ PriceOf(run.rowsBatch[4]) = <<PriceList2[3]>>
  /\ PriceOf(run.rowsBatch[1]) = <<>>
  /\ PriceOf(run.rowsBatch[5]) = <<PriceList2[5]>>

\* the record's price entry is per hour and for the resource "cpu"
PerHourCpu(r) ==
  /\ PriceOf(r) # <<>>
  /\ PriceOf(r)[1].timeUnit = "HOURS"
  /\ PriceOf(r)[1].resourceName = "cpu"
\* (end - start) / 3,600,000 of the record, times n
HoursTimes(r, n) ==
  FracMul(Frac((r.date_end_ms.d - r.date_start_ms.d) * 86400000
                 + (r.date_end_ms.ms - r.date_start_ms.ms), 3600000),
          Frac(n, 1))

\* C18 as stated: a record whose price entry is per hour and for "cpu" has
\* the unit "vCPU-hour" and as usage its hours times N, where N is the CPU
\* count of the VM resolved for the record, the one its cpu_core shows, and
\* 1 when no VM is resolved for it.
C18_CpuHoursTimesCores ==
  \A j \in InventoryRecords :
    LET r == run.rowsBatch[j]
        N == IF r.cpu_core # <<>> THEN r.cpu_core[1] ELSE 1
    IN  PerHourCpu(r) =>
          /\ r.resource_unit = <<"vCPU-hour">>
          /\ r.resource_used = <<HoursTimes(r, N)>>

\* no price entry matches record r: no candidate name has an entry covering
\* the record's start time (with no price list there are no entries)
NoPriceMatch(r) ==
  \A c \in 1..Len(CandidatesOf(r)) : Covering(CandidatesOf(r)[c], r.date_start_ms) = {}

\* C19: the call is not ended by an error of the normalizer, and every
\* inventory record for which no price entry matches has a null resource
\* used and a null resource unit, next to its cost.
C19_NoPriceNullUsage ==
  Billed =>
    /\ run.outcome # "raised"
    /\ \A j \in InventoryRecords :
         LET r == run.rowsBatch[j]
         IN  NoPriceMatch(r) =>
               /\ r.resource_used = <<>>
               /\ r.resource_unit = <<>>
               /\ r.cost \in Nat

\* without a price list every element of the mixed payload still has its
\* record and cost; with the first list the element before T0 has no match
C19_Witness ==
  /\ Billed /\ Payload = SpendingMixed
  /\ run.outcome = "ok"
  /\ Len(run.rowsBatch) = 11
  /\ run.rowsBatch[1].cost = 1 /\ NoPriceMatch(run.rowsBatch[1])
  /\ run.rowsBatch[1].resource_used = <<>>
  /\ \/ run.pricesByTable = <<>> /\ \A j \in InventoryRecords : NoPriceMatch(run.rowsBatch[j])
     \/ run.pricesByTable = <<PriceList2>> /\ ~NoPriceMatch(run.rowsBatch[2])
  /\ RowsNow = run.rowsBatch

\* reference data a call can work with: no price list, an empty one, the
\* lists of the model; no VM inventory, the inventories of the model
AnyPrices == {<<>>, <<<<>>>>, <<PriceList2>>, <<PriceList3>>}
AnyVmMaps ==
  {NoVmMaps, BuildVmMaps(VmInventory1, 1, NoVmMaps), BuildVmMaps(VmInventory2, 1, NoVmMaps)}
\* the records of the call's payload and window under other reference data
RecordsUnder(prices, maps) ==
  NormalizeSpending([Ctx(run) EXCEPT !.pricesByTable = prices, !.vmMap = maps.vmMap,
                                     !.volumeToVm = maps.volumeToVm], Payload)
\* a record without the four fields derived from reference data
NoDerived(r) ==
  [r EXCEPT !.cpu_core = <<>>, !.memory = <<>>, !.resource_used = <<>>,
            !.resource_unit = <<>>]

\* C20: under any other reference data the payload and window of the call
\* give as many records, in the same order, each equal to the call's record
\* in cost and in every field but cpu_core, memory, resource_used and
\* resource_unit.
C20_CostIndependentOfReferences ==
  Billed =>
    \A prices \in AnyPrices : \A maps \in AnyVmMaps :
      LET other == RecordsUnder(prices, maps)
      IN  /\ Len(other) = Len(run.rowsBatch)
          /\ \A j \in 1..Len(other) :
               /\ other[j].cost = run.rowsBatch[j].cost
               /\ NoDerived(other[j]) = NoDerived(run.rowsBatch[j])

C20_Witness ==
  /\ Billed /\ Payload = SpendingOffVm
  /\ run.pricesByTable = <<PriceList2>>
  /\ run.vmMaps = BuildVmMaps(VmInventory1, 1, NoVmMaps)
  /\ Len(run.rowsBatch) = 5
  /\ run.rowsBatch[1].cpu_core = <<2>>
  /\ RecordsUnder(<<>>, NoVmMaps)[1].cpu_core = <<>>
  /\ RecordsUnder(<<>>, NoVmMaps)[1].resource_unit = <<>>
  /\ run.rowsBatch[1].resource_unit = <<"vCPU-hour">>
  /\ RecordsUnder(<<>>, NoVmMaps)[1].cost = 4

\* SpecUnits: calls under price lists whose entries have a price of zero, no
\* price, or no declared resource unit.
\* a free per-gigabyte volume price, a per-day memory price without a
\* declared unit, a cpu entry without a price
PriceList4 ==
  <<Price("dataVolume", "tbl1", Some(0), "HOURS", "GIGABYTE", Null, Null),
    Price("memory", "tbl1", Some(2), "DAYS", "", Null, Null),
    Price("cpu", "tbl1", Null, "HOURS", "", Null, Null)>>
UnitPrices ==
  {[kind |-> "ok", inventories |-> PriceList2],
   [kind |-> "ok", inventories |-> PriceList4]}

InitUnits == InitOf(LoadConfigs)

NextUnits ==
  \/ runs = 0 /\ CollectBillingForDate(D1)
  \/ EnsureBQTable({FALSE})
  \/ TablesInsert({"ok"})
  \/ Prices(OkRefs, UnitPrices)
  \/ VmInstances(NormVms)
  \/ Billing(NormBilling)
  \/ DeleteRowsForDate({"ok"})
  \/ InsertRowsToBQ({Clean})

SpecUnits == InitUnits /\ [][NextUnits]_vars

\* C27 as stated: in every record of the batch resource_used and
\* resource_unit are both null or both populated.
C27_UsedAndUnitPaired ==
  \A i \in 1..Len(run.rowsBatch) :
    (run.rowsBatch[i].resource_used = Null) <=> (run.rowsBatch[i].resource_unit = Null)

-----------------------------------------------------------------------------
(* The billing window: calls for dates across month ends, year ends, leap
   days and the epoch, each with a plain billing response *)

WindowDates ==
  {D1, DateOf(2024, 2, 29), DateOf(2024, 12, 31), DateOf(2025, 1, 1),
   DateOf(1970, 1, 1), DateOf(2000, 2, 29), DateOf(2100, 3, 1),
   DateOf(2025, 3, 1)}

InitWindow == InitOf(LoadConfigs)

NextWindow ==
  \/ \E ds \in WindowDates : CollectBillingForDate(ds)
  \/ EnsureBQTable({FALSE})
  \/ TablesInsert({"ok"})
  \/ Prices(OkRefs, OkPrices)
  \/ VmInstances(OkVms)
  \/ Billing(PlainBilling)
  \/ DeleteRowsForDate({"ok"})
  \/ InsertRowsToBQ({Clean})

SpecWindow == InitWindow /\ [][NextWindow]_vars

\* the days from 1970-01-01 to y-m-d, counted from the leap years since 1970
\* and the lengths of the months before m
LeapYearsBefore(y) == Cardinality({k \in 1970..(y - 1) : CalendarDays(k, 2) = 29})
DaysToYear(y) == 365 * (y - 1970) + LeapYearsBefore(y)
DaysToMonth(y, m) ==
  <<0, 31, 59, 90, 120, 151, 181, 212, 243, 273, 304, 334>>[m]
    + (IF m > 2 /\ CalendarDays(y, 2) = 29 THEN 1 ELSE 0)
CivilDay(ds) == DaysToYear(ds.y) + DaysToMonth(ds.y, ds.m) + ds.d - 1

\* C13: the window of a call for dateStr starts at 00:00:00.000 and ends at
\* 23:59:59.999 of that calendar day on a clock seven hours east of UTC
\* (17:00:00.000 UTC of the day before and 16:59:59.999 UTC of the day);
\* the start is before the end and they are 86,399,999 ms apart; both are
\* whole milliseconds; the billing request carries these two values as
\* dateStart and dateEnd, and a record of an entry without dates of its own
\* carries them too.
C13_WindowIsLocalDay ==
  run.request # Null =>
    LET s   == run.request[1].dateStart
        e   == run.request[1].dateEnd
        day == CivilDay(run.dateStr)
    IN  /\ s = [d |-> day - 1, ms |-> 17 * 3600000]
        /\ e = [d |-> day, ms |-> 17 * 3600000 - 1]
        /\ s.d < e.d \/ (s.d = e.d /\ s.ms < e.ms)
        /\ (e.d - s.d) * 86400000 + (e.ms - s.ms) = 86399999
        /\ s.ms \in 0..86399999 /\ e.ms \in 0..86399999
        /\ \A i \in 1..Len(run.rowsBatch) :
             /\ run.rowsBatch[i].date_start_ms = s
             /\ run.rowsBatch[i].date_end_ms = e

C13_Witness ==
  /\ run.dateStr = DateOf(2024, 2, 29)
  /\ run.request = Some([dateStart |-> T(19781, 61200000),
                         dateEnd |-> T(19782, 61199999)])
  /\ Len(run.rowsBatch) = 1
  /\ run.outcome = "ok"

====
